---- MODULE Spec2Model ----
(***************************************************************************)
(* The client-local repository engine of the food-pantry tracker           *)
(* (RepositoryProvider, src/unnamed/part_002) and the check-out page that  *)
(* calls it (src/client/src/pages/check-out.tsx).                          *)
(*                                                                         *)
(* The engine is a React provider: `state` is the value of its useState    *)
(* hook, every engine function is a closure created by the render that     *)
(* saw that value, and every mutation is a setState(updater) call.  A      *)
(* call therefore does two things at two different times: what the code    *)
(* reads from `state` it reads from the snapshot of the render its closure *)
(* belongs to, and what it does inside `setState((prev) => ...)` is done    *)
(* later, on the state the preceding updaters produced.  The model keeps   *)
(* both: `state` is the committed snapshot, `queue` the updaters that were *)
(* enqueued since, and Render applies them in order.                       *)
(*                                                                         *)
(* Strings stand for JS strings, Undef for JS undefined.  An object whose  *)
(* keys may be absent (a Partial<...>) is a function whose DOMAIN is the   *)
(* set of keys that are present; a number field that is undefined is a key *)
(* that is absent.  The item field allergens and the client fields         *)
(* allergies and notes are read by no                                      *)
(* operation modelled here and are left out.  The model is of the provider *)
(* in a browser (window is defined).                                       *)
(***************************************************************************)
EXTENDS Integers, Sequences, FiniteSets, TLC

VARIABLES
    state,      \* RepositoryState held by useState (part_002:146)
    queue,      \* setState updaters enqueued and not yet applied by a render
    uuidCount,  \* number of crypto.randomUUID() values handed out so far
    clock,      \* the wall clock read by new Date()
    calls,      \* number of engine operations called so far
    cart,       \* the check-out page's cart (check-out.tsx:21)
    inflight,   \* the check-out page's handlers that wait for a lookup
    handled,    \* number of handlers of the check-out page invoked so far
    store,      \* what localStorage holds under STORAGE_KEY (part_002:78)
    loaded,     \* the latest loadState() call: what it read, what it returned
    storage,    \* the maps of the server's MemStorage (part_000:190-198)
    responses   \* the answers the server has sent, with what each request did

engineVars == <<state, queue, uuidCount, clock, calls>>

pageVars == <<cart, inflight, handled>>

storeVars == <<store, loaded>>

serverVars == <<storage, responses>>

vars == <<state, queue, uuidCount, clock, calls, cart, inflight, handled,
          store, loaded, storage, responses>>

-----------------------------------------------------------------------------
(* Bounds of the model *)

MaxCalls == 4       \* engine operations called in one behaviour
MaxQueue == 2       \* updaters pending between two renders
MaxInFlight == 2    \* handlers of the check-out page waiting at one time
MaxHandled == 4     \* handlers of the check-out page invoked in a behaviour
MaxClock == 2       \* the latest time the wall clock reaches
TicksPerDay == 2    \* instants of the wall clock in one day
MaxRequests == 3    \* requests the server answers in one behaviour

-----------------------------------------------------------------------------
(* JS values *)

Undef == "undefined"

\* JS truthiness of a string-or-undefined value
Truthy(v) == v # Undef /\ v # ""

Has(p, k) == k \in DOMAIN p

\* p.k of an object whose key may be absent
Get(p, k) == IF Has(p, k) THEN p[k] ELSE Undef

\* p.k ?? d, for a string-or-undefined field
OrElse(p, k, d) == IF Has(p, k) /\ p[k] # Undef THEN p[k] ELSE d

\* p.k ?? d, for a number field (which a caller either gives or leaves out)
OrElseNum(p, k, d) == IF Has(p, k) THEN p[k] ELSE d

\* { ...existing, ...partial }: every own key of partial overwrites, also a
\* key that is present with the value undefined
Spread(existing, partial) ==
    [k \in DOMAIN existing \cup DOMAIN partial |->
        IF k \in DOMAIN partial THEN partial[k] ELSE existing[k]]

\* Array.prototype.find as the index of the first match, 0 when none
FindIndex(seq, Test(_)) ==
    IF \E i \in 1..Len(seq) : Test(seq[i])
    THEN CHOOSE i \in 1..Len(seq) :
            Test(seq[i]) /\ \A j \in 1..(i - 1) : ~Test(seq[j])
    ELSE 0

\* Array.prototype.map
Map(seq, F(_)) == [i \in 1..Len(seq) |-> F(seq[i])]

Max(a, b) == IF a >= b THEN a ELSE b

\* String.prototype.trim, on the strings a barcode or a name field is given:
\* "", " ", "123", " 123 ", "456" and names without surrounding blanks
Trim(s) ==
    CASE s = " " -> ""
      [] s = " 123 " -> "123"
      [] OTHER -> s

\* crypto.randomUUID(): the n-th value handed out; no two are equal and none
\* equals an id a caller makes up
UuidPool == <<"u1", "u2", "u3", "u4", "u5", "u6", "u7", "u8", "u9", "u10",
              "u11", "u12", "u13", "u14", "u15", "u16">>

\* a generator that hands out one value again and again
uuidRepeated(n) == UuidPool[1]

uuid(n) == UuidPool[n + 1]

-----------------------------------------------------------------------------
(* defaultState *)

defaultState ==
    [inventory |-> <<>>, clients |-> <<>>, transactions |-> <<>>,
     settings |-> [visitWarningDays |-> 7],
     barcodeCache |-> <<>>,
     sources |-> <<"Donation", "Purchase", "Transfer", "Other">>,
     donors |-> <<"Morgan State University", "Maryland Food Bank",
                  "Local Grocery">>]

-----------------------------------------------------------------------------
(* The durable store.  A value of localStorage.getItem is null or a text;  *)
(* a text written by saveState is kept as the JSON document it spells, any *)
(* other text by its characters.                                           *)

Null == [null |-> TRUE]

EmptyText == [text |-> ""]

\* a text that is no JSON document
Garbage == [text |-> "{\"inventory\":"]

\* what a loadState() call reads when getItem raises
ReadError == [error |-> "SecurityError"]

\* the keys whose value is a string or undefined
StringKeys ==
    {"id", "name", "category", "barcode", "identifier", "contact", "type",
     "clientId", "clientName", "source", "donor", "location", "itemId"}

\* JSON.stringify of an object: a key whose value is undefined is left out
WithoutUndefined(obj) ==
    [k \in {x \in DOMAIN obj : ~(x \in StringKeys /\ obj[x] = Undef)} |-> obj[k]]

StringifiedTransaction(t) ==
    WithoutUndefined([t EXCEPT !.items = Map(t.items, WithoutUndefined)])

\* the document JSON.stringify(state) spells
JSONstringify(st) ==
    [inventory |-> Map(st.inventory, WithoutUndefined),
     clients |-> Map(st.clients, WithoutUndefined),
     transactions |-> Map(st.transactions, StringifiedTransaction),
     settings |-> st.settings,
     barcodeCache |->
        [b \in DOMAIN st.barcodeCache |-> WithoutUndefined(st.barcodeCache[b])],
     sources |-> st.sources,
     donors |-> st.donors]

\* JSON.parse(raw): the value of the document, or a SyntaxError
JSONparse(raw) ==
    IF raw.text = "json" THEN [threw |-> FALSE, value |-> raw.value]
    ELSE [threw |-> TRUE]

\* a merge that lets the defaults win
DefaultsOverParsed(parsed) == Spread(parsed, defaultState)

\* { ...defaultState, ...parsed }
ParsedOverDefaults(parsed) == Spread(defaultState, parsed)

\* a load that seeds no vocabulary
loadStateWithoutSeeds(read) ==
    [defaultState EXCEPT !.sources = <<>>, !.donors = <<>>]

\* a load that gives up on a document that misses a field
loadStateAllOrNothing(read) ==
    IF read = ReadError \/ read = Null \/ read = EmptyText THEN defaultState
    ELSE IF JSONparse(read).threw THEN defaultState
    ELSE IF DOMAIN JSONparse(read).value = DOMAIN defaultState
         THEN JSONparse(read).value
         ELSE defaultState

\* loadState, given what getItem answers (read): the catch, !raw, the parse
loadState(read) ==
    IF read = ReadError THEN defaultState
    ELSE IF read = Null \/ read = EmptyText THEN defaultState
    ELSE IF JSONparse(read).threw THEN defaultState
    ELSE ParsedOverDefaults(JSONparse(read).value)

\* a save that writes nothing
saveStateSkipped(held, st, fails) == held

\* a save that leaves no blob behind when setItem raises
saveStateLosingBlob(held, st, fails) ==
    IF fails THEN Null ELSE [text |-> "json", value |-> JSONstringify(st)]

\* saveState: what the store holds after it; a setItem that raises (fails)
\* is ignored
saveState(held, st, fails) ==
    IF fails THEN held ELSE [text |-> "json", value |-> JSONstringify(st)]

-----------------------------------------------------------------------------
(* addOrUpdateItem: the part that runs at the call, on the closure's state *)

\* the item the call resolves to: index into inv, 0 when it creates
ResolveItem(inv, partial) ==
    LET byId == IF Truthy(Get(partial, "id"))
                THEN FindIndex(inv, LAMBDA i : i.id = partial.id)
                ELSE 0
        byBarcode == IF Truthy(Get(partial, "barcode"))
                     THEN FindIndex(inv, LAMBDA i :
                              Truthy(Get(i, "barcode")) /\ Get(i, "barcode") = partial.barcode)
                     ELSE 0
    IN  IF byId # 0 THEN byId ELSE byBarcode

\* a barcode kept as it was typed
NewItemBarcodeAsTyped(partial) == Get(partial, "barcode")

\* partial.barcode?.trim() || undefined
NewItemBarcode(partial) ==
    IF Get(partial, "barcode") = Undef THEN Undef
    ELSE IF Trim(partial.barcode) = "" THEN Undef
    ELSE Trim(partial.barcode)

\* reorderThreshold: partial.reorderThreshold
NewItemThreshold(partial) ==
    [k \in DOMAIN partial \cap {"reorderThreshold"} |-> partial[k]]

NewItem(partial, now, n) ==
    Spread([id |-> OrElse(partial, "id", uuid(n)),
            name |-> partial.name,
            category |-> OrElse(partial, "category", "Uncategorized"),
            barcode |-> NewItemBarcode(partial),
            quantity |-> OrElseNum(partial, "quantity", 0),
            weightPerUnitLbs |-> OrElseNum(partial, "weightPerUnitLbs", 0),
            valuePerUnitUsd |-> OrElseNum(partial, "valuePerUnitUsd", 0),
            createdAt |-> now,
            updatedAt |-> now],
           NewItemThreshold(partial))

\* a low-stock test that takes a threshold of 0 for no threshold
isLowStockUnlessZero(item) ==
    IF ~Has(item, "reorderThreshold") \/ item.reorderThreshold = 0 THEN FALSE
    ELSE item.quantity <= item.reorderThreshold

\* isLowStock: reorderThreshold == null is a threshold that is not set
isLowStock(item) ==
    IF ~Has(item, "reorderThreshold") THEN FALSE
    ELSE item.quantity <= item.reorderThreshold

\* the call: the item it returns, the updater it enqueues (which closes over
\* existing, updated or item, and partial), the uuids it took
addOrUpdateItem(inv, partial, now, n) ==
    LET idx == ResolveItem(inv, partial) IN
    IF idx # 0
    THEN LET updated == [Spread(inv[idx], partial) EXCEPT !.updatedAt = now]
         IN  [ret |-> updated,
              upd |-> [op |-> "replaceItem", id |-> inv[idx].id, with |-> updated,
                       partial |-> partial],
              uuids |-> n]
    ELSE LET item == NewItem(partial, now, n)
         IN  [ret |-> item,
              upd |-> [op |-> "appendItem", item |-> item, partial |-> partial],
              uuids |-> IF OrElse(partial, "id", Undef) = Undef THEN n + 1 ELSE n]

-----------------------------------------------------------------------------
(* The updaters: each maps the state it is applied to (prev) to the next   *)

\* a ledger of live references: an edit of an item shows in the lines that
\* name it
ReplaceItemAndItsLines(prev, u) ==
    [prev EXCEPT
        !.inventory =
            Map(prev.inventory, LAMBDA i : IF i.id = u.id THEN u.with ELSE i),
        !.transactions =
            Map(prev.transactions, LAMBDA t :
                [t EXCEPT !.items = Map(t.items, LAMBDA l :
                    IF l.itemId = u.id THEN [l EXCEPT !.name = u.with.name]
                    ELSE l)])]

ReplaceItem(prev, u) ==
    [prev EXCEPT !.inventory =
        Map(prev.inventory, LAMBDA i : IF i.id = u.id THEN u.with ELSE i)]

AppendItem(prev, u) ==
    [prev EXCEPT !.inventory = Append(prev.inventory, u.item)]

\* an adjustment that does not stop at zero
UnclampedSum(quantity, delta) == quantity + delta

\* Math.max(0, item.quantity + delta)
ClampedSum(quantity, delta) == Max(0, quantity + delta)

AdjustItemQuantity(prev, u, now) ==
    [prev EXCEPT !.inventory =
        Map(prev.inventory, LAMBDA item :
            IF item.id # u.itemId THEN item
            ELSE [item EXCEPT !.quantity = ClampedSum(item.quantity, u.delta),
                              !.updatedAt = now])]

ReplaceClient(prev, u) ==
    [prev EXCEPT !.clients =
        Map(prev.clients, LAMBDA c : IF Get(c, "id") = u.id THEN u.with ELSE c)]

AppendClient(prev, u) ==
    [prev EXCEPT !.clients = Append(prev.clients, u.client)]

\* p with key k set to v
With(p, k, v) == [x \in DOMAIN p \cup {k} |-> IF x = k THEN v ELSE p[x]]

\* a cache that keeps the fields of the entry it had
UpsertBarcodeCacheMerging(prev, u) ==
    [prev EXCEPT !.barcodeCache =
        With(prev.barcodeCache, u.barcode,
             IF Has(prev.barcodeCache, u.barcode)
             THEN Spread(prev.barcodeCache[u.barcode],
                         With(u.entry, "cachedAt", u.cachedAt))
             ELSE With(u.entry, "cachedAt", u.cachedAt))]

\* upsertBarcodeCache's updater: { ...prev.barcodeCache, [barcode]: entry }
UpsertBarcodeCache(prev, u) ==
    [prev EXCEPT !.barcodeCache =
        With(prev.barcodeCache, u.barcode, With(u.entry, "cachedAt", u.cachedAt))]

\* Array.prototype.includes
Includes(seq, v) == \E i \in 1..Len(seq) : seq[i] = v

\* a vocabulary that takes every string it is given
AddSourceUnchecked(prev, u) ==
    [prev EXCEPT !.sources = Append(prev.sources, u.source)]

\* addSource's updater
AddSource(prev, u) ==
    IF Includes(prev.sources, u.source) THEN prev
    ELSE [prev EXCEPT !.sources = Append(prev.sources, u.source)]

\* addDonor's updater
AddDonor(prev, u) ==
    IF Includes(prev.donors, u.donor) THEN prev
    ELSE [prev EXCEPT !.donors = Append(prev.donors, u.donor)]

\* a forgotten spread: the ledger is replaced by the new transaction
PrependForgettingLedger(tx, transactions) == <<tx>>

\* [tx, ...prev.transactions]
Prepend(tx, transactions) == <<tx>> \o transactions

\* recordInbound's updater; the transaction id is drawn inside it
RecordInbound(prev, u, n) ==
    LET idx == FindIndex(prev.inventory, LAMBDA i : i.id = u.itemId) IN
    IF idx = 0 THEN [st |-> prev, uuids |-> n]
    ELSE LET item == prev.inventory[idx]
             inventory == Map(prev.inventory, LAMBDA i :
                 IF i.id = u.itemId
                 THEN [i EXCEPT !.quantity = i.quantity + u.quantity,
                                !.updatedAt = u.timestamp]
                 ELSE i)
             tx == [id |-> uuid(n),
                    type |-> "IN",
                    timestamp |-> u.timestamp,
                    items |-> <<[itemId |-> item.id,
                                 name |-> item.name,
                                 quantity |-> u.quantity,
                                 weightPerUnitLbs |-> item.weightPerUnitLbs,
                                 valuePerUnitUsd |-> item.valuePerUnitUsd]>>,
                    source |-> u.source,
                    donor |-> u.donor,
                    location |-> u.location]
         IN  [st |-> [prev EXCEPT !.inventory = inventory,
                                  !.transactions = Prepend(tx, prev.transactions)],
              uuids |-> n + 1]

-----------------------------------------------------------------------------
(* upsertClient: a call, on the clients of the closure's state *)

ResolveClient(clients, partial) ==
    LET byId == IF Truthy(Get(partial, "id"))
                THEN FindIndex(clients, LAMBDA c : Get(c, "id") = partial.id)
                ELSE 0
        byIdentifier == FindIndex(clients, LAMBDA c :
                            c.identifier = partial.identifier)
    IN  IF byId # 0 THEN byId ELSE byIdentifier

NewClient(partial, now, n) ==
    [id |-> OrElse(partial, "id", uuid(n)),
     name |-> partial.name,
     identifier |-> partial.identifier,
     contact |-> Get(partial, "contact"),
     createdAt |-> now,
     updatedAt |-> now]

upsertClient(clients, partial, now, n) ==
    LET idx == ResolveClient(clients, partial) IN
    IF idx # 0
    THEN LET updated == [Spread(clients[idx], partial) EXCEPT !.updatedAt = now]
         IN  [ret |-> updated,
              upd |-> [op |-> "replaceClient", id |-> Get(clients[idx], "id"),
                       with |-> updated, partial |-> partial],
              uuids |-> n]
    ELSE LET client == NewClient(partial, now, n)
         IN  [ret |-> client,
              upd |-> [op |-> "appendClient", client |-> client,
                       partial |-> partial],
              uuids |-> IF OrElse(partial, "id", Undef) = Undef THEN n + 1 ELSE n]

-----------------------------------------------------------------------------
(* recordOutbound's updater.  It is not a pure function of prev: it calls   *)
(* upsertClient, which reads the clients of the closure's state (u.closure) *)
(* and enqueues an updater of its own (nested).                            *)

\* Math.max(0, item.quantity - cartItem.quantity)
ClampedDifference(quantity, taken) == Max(0, quantity - taken)

\* lines that record what the item has on hand, not what the cart asks
TxItemsOfStock(inventory, items) ==
    Map(SelectSeq(items, LAMBDA i :
            FindIndex(inventory, LAMBDA item : item.id = i.itemId) # 0),
        LAMBDA i :
            LET base == inventory[FindIndex(inventory,
                                            LAMBDA item : item.id = i.itemId)]
            IN  [itemId |-> base.id, name |-> base.name,
                 quantity |-> base.quantity,
                 weightPerUnitLbs |-> base.weightPerUnitLbs,
                 valuePerUnitUsd |-> base.valuePerUnitUsd])

\* options.items.map(...).filter(Boolean)
RECURSIVE TxItems(_, _)
TxItems(inventory, items) ==
    IF items = <<>> THEN <<>>
    ELSE LET i == Head(items)
             b == FindIndex(inventory, LAMBDA item : item.id = i.itemId)
         IN  IF b = 0 THEN TxItems(inventory, Tail(items))
             ELSE <<[itemId |-> inventory[b].id,
                     name |-> inventory[b].name,
                     quantity |-> i.quantity,
                     weightPerUnitLbs |-> inventory[b].weightPerUnitLbs,
                     valuePerUnitUsd |-> inventory[b].valuePerUnitUsd]>>
                 \o TxItems(inventory, Tail(items))

OutboundInventory(inventory, items, timestamp) ==
    Map(inventory, LAMBDA item :
        LET c == FindIndex(items, LAMBDA i : i.itemId = item.id) IN
        IF c = 0 THEN item
        ELSE [item EXCEPT
                !.quantity = ClampedDifference(item.quantity, items[c].quantity),
                !.updatedAt = timestamp])

OutboundClients(clients, client) ==
    IF \E i \in 1..Len(clients) : Get(clients[i], "id") = Get(client, "id")
    THEN Map(clients, LAMBDA c :
            IF Get(c, "id") = Get(client, "id") THEN client ELSE c)
    ELSE <<client>> \o clients

RecordOutbound(prev, u, now, n) ==
    LET call == upsertClient(u.closure, u.client, now, n)
        client == call.ret
        txItems == TxItems(prev.inventory, u.items)
        tx == [id |-> uuid(call.uuids),
               type |-> "OUT",
               timestamp |-> u.timestamp,
               clientId |-> Get(client, "id"),
               clientName |-> client.name,
               items |-> txItems,
               location |-> u.location]
    IN  IF txItems = <<>>
        THEN [st |-> prev, uuids |-> call.uuids, nested |-> <<call.upd>>,
              createdClient |-> client]
        ELSE [st |-> [prev EXCEPT
                        !.inventory =
                            OutboundInventory(prev.inventory, u.items, u.timestamp),
                        !.clients = OutboundClients(prev.clients, client),
                        !.transactions = Prepend(tx, prev.transactions)],
              uuids |-> call.uuids + 1,
              nested |-> <<call.upd>>,
              createdClient |-> client]

-----------------------------------------------------------------------------
(* A render: React applies the pending updaters in order, each to the      *)
(* result of the one before.  An updater enqueued while the queue is being *)
(* processed (the one upsertClient enqueues from inside recordOutbound's   *)
(* updater) is a render-phase update: it is applied in a second pass, to   *)
(* the result of the first.                                                *)

ApplyUpdate(prev, u, now, n) ==
    CASE u.op = "replaceItem" ->
            [st |-> ReplaceItem(prev, u), uuids |-> n, nested |-> <<>>]
      [] u.op = "appendItem" ->
            [st |-> AppendItem(prev, u), uuids |-> n, nested |-> <<>>]
      [] u.op = "adjust" ->
            [st |-> AdjustItemQuantity(prev, u, now), uuids |-> n, nested |-> <<>>]
      [] u.op = "replaceClient" ->
            [st |-> ReplaceClient(prev, u), uuids |-> n, nested |-> <<>>]
      [] u.op = "appendClient" ->
            [st |-> AppendClient(prev, u), uuids |-> n, nested |-> <<>>]
      [] u.op = "cache" ->
            [st |-> UpsertBarcodeCache(prev, u), uuids |-> n, nested |-> <<>>]
      [] u.op = "inbound" ->
            LET r == RecordInbound(prev, u, n)
            IN  [st |-> r.st, uuids |-> r.uuids, nested |-> <<>>]
      [] u.op = "outbound" ->
            LET r == RecordOutbound(prev, u, now, n)
            IN  [st |-> r.st, uuids |-> r.uuids, nested |-> r.nested]
      [] u.op = "eagerState" ->
            [st |-> u.eagerState, uuids |-> n, nested |-> <<>>]
      [] u.op = "addSource" ->
            [st |-> AddSource(prev, u), uuids |-> n, nested |-> <<>>]
      [] u.op = "addDonor" ->
            [st |-> AddDonor(prev, u), uuids |-> n, nested |-> <<>>]

\* the accumulator of a pass after an updater has returned r
Advance(acc, r) ==
    [st |-> r.st, uuids |-> r.uuids, nested |-> acc.nested \o r.nested]

\* the states a pass goes through: <<start, after 1st updater, ...>>
RECURSIVE Pass(_, _, _)
Pass(acc, q, now) ==
    IF q = <<>> THEN <<acc>>
    ELSE <<acc>> \o Pass(Advance(acc, ApplyUpdate(acc.st, Head(q), now, acc.uuids)),
                         Tail(q), now)

Last(seq) == seq[Len(seq)]

FirstPass(st, q, now, n) ==
    Pass([st |-> st, uuids |-> n, nested |-> <<>>], q, now)

\* the pass over the updaters enqueued during the first pass, from its end
NestedPass(first, now) ==
    Pass([st |-> first.st, uuids |-> first.uuids, nested |-> <<>>],
         first.nested, now)

SecondPass(st, q, now, n) == NestedPass(Last(FirstPass(st, q, now, n)), now)

Rendered(st, q, now, n) == Last(SecondPass(st, q, now, n))

\* what a pass did: for each updater, the state it was applied to and the
\* state it returned
StepsOf(pass, q) ==
    [k \in 1..Len(q) |->
        [prev |-> pass[k].st, upd |-> q[k], next |-> pass[k + 1].st,
         uuids |-> pass[k].uuids]]

RenderSteps(st, q, now, n) ==
    StepsOf(FirstPass(st, q, now, n), q)
        \o StepsOf(SecondPass(st, q, now, n),
                   Last(FirstPass(st, q, now, n)).nested)

-----------------------------------------------------------------------------
(* Reading an inventory and a cart *)

ItemsWithId(inv, id) == {i \in 1..Len(inv) : inv[i].id = id}

Exists(inv, id) == ItemsWithId(inv, id) # {}

OnHand(inv, id) == inv[FindIndex(inv, LAMBDA i : i.id = id)].quantity

\* the units a cart asks of the item with an id, over all its lines
RECURSIVE UnitsAsked(_, _)
UnitsAsked(items, id) ==
    IF items = <<>> THEN 0
    ELSE (IF Head(items).itemId = id THEN Head(items).quantity ELSE 0)
            + UnitsAsked(Tail(items), id)

-----------------------------------------------------------------------------
(* The arguments the operations are called with *)

\* every object of S, with and without a key k of a value in V
Optional(S, k, V) == S \cup {With(p, k, v) : p \in S, v \in V}

Names == {"Rice", "Beans"}

\* ids a caller can name: one it makes up, and those of the items it has seen
\* (in the state, or returned by an addOrUpdateItem call of the same handler)
PendingItemIds ==
    {queue[i].item.id : i \in {j \in 1..Len(queue) : queue[j].op = "appendItem"}}

KnownItemIds ==
    {state.inventory[i].id : i \in 1..Len(state.inventory)} \cup PendingItemIds

ItemIds == {"X"} \cup KnownItemIds

KnownClientIds == {Get(state.clients[i], "id") : i \in 1..Len(state.clients)}

\* Inventory work: a create by barcode (as scanned, with surrounding
\* blanks, and blank) or with a quantity below zero; an upsert by id of the
\* name, and of the barcode
ItemPartials ==
    {[name |-> "Rice", quantity |-> -1], [name |-> "Beans", barcode |-> " 123 "],
     [name |-> "Rice", barcode |-> " "]}
    \cup {[name |-> nm, barcode |-> "123"] : nm \in Names}
    \cup {[id |-> id, name |-> "Beans"] : id \in ItemIds}
    \cup {[id |-> id, name |-> "Rice", barcode |-> "123"] : id \in ItemIds}

\* Receiving and distributing: an item is created with stock on hand, and is
\* later edited by id (name, weight and value)
StockPartials ==
    {[name |-> "Rice", quantity |-> 2]}
    \cup {[id |-> id, name |-> "Beans", weightPerUnitLbs |-> 1,
           valuePerUnitUsd |-> 2] : id \in KnownItemIds}

\* name and identifier of the clients served: two people, and the second one
\* giving the first one's identifier
ClientEntries ==
    {[name |-> "Jane", identifier |-> "J1"], [name |-> "Joe", identifier |-> "J2"],
     [name |-> "Joe", identifier |-> "J1"]}

\* the client object recordOutbound is given: id is undefined for a new client
ClientOptions ==
    {[id |-> id, name |-> e.name, identifier |-> e.identifier, contact |-> Undef] :
        id \in {Undef} \cup KnownClientIds, e \in ClientEntries}

ClientPartials == Optional(ClientEntries, "id", KnownClientIds)

\* the options a caller may leave out
NoOptions == [k \in {} |-> Undef]

\* a caller that leaves the timestamp out, and one that records at time 1 what
\* it recorded on paper then
Timestamps == {NoOptions, [timestamp |-> 1]}

CartLines == {[itemId |-> id, quantity |-> q] : id \in ItemIds, q \in {1, 2}}

OneLineCarts == {<<>>} \cup {<<l>> : l \in {c \in CartLines : c.quantity = 1}}

\* carts of no line, of one line, and of two lines of one unit each
Carts == {<<>>} \cup {<<l>> : l \in CartLines}
            \cup {<<l, m>> : l \in {c \in CartLines : c.quantity = 1},
                             m \in {c \in CartLines : c.quantity = 1}}

-----------------------------------------------------------------------------
(* The bounds: a behaviour calls at most MaxCalls operations, and at most  *)
(* MaxQueue updaters are pending between two renders                       *)

RoomInQueue == Len(queue) < MaxQueue

Called ==
    /\ calls < MaxCalls
    /\ calls' = calls + 1

-----------------------------------------------------------------------------
(* The engine's operations, called through the closures of the latest      *)
(* render: what they read of `state` is the committed snapshot, whatever    *)
(* is pending in the queue.                                                *)

Init ==
    /\ state = defaultState
    /\ queue = <<>>
    /\ uuidCount = 0
    /\ clock = 1
    /\ calls = 0
    /\ cart = <<>>
    /\ inflight = <<>>
    /\ handled = 0
    /\ store = saveState(Null, defaultState, FALSE)
    /\ loaded = [read |-> Null, ret |-> defaultState]
    /\ storage = [transactions |-> <<>>, transactionItems |-> <<>>]
    /\ responses = <<>>

AddOrUpdateItem(partials) ==
    /\ RoomInQueue
    /\ Called
    /\ \E partial \in partials :
        LET call == addOrUpdateItem(state.inventory, partial, clock, uuidCount) IN
        /\ queue' = Append(queue, call.upd)
        /\ uuidCount' = call.uuids
        /\ UNCHANGED <<state, clock>>

AdjustItemQuantityCall(deltas) ==
    /\ RoomInQueue
    /\ Called
    /\ \E itemId \in ItemIds, delta \in deltas :
        /\ queue' = Append(queue, [op |-> "adjust", itemId |-> itemId,
                                   delta |-> delta])
        /\ UNCHANGED <<state, uuidCount, clock>>

UpsertClient(partials) ==
    /\ RoomInQueue
    /\ Called
    /\ \E partial \in partials :
        LET call == upsertClient(state.clients, partial, clock, uuidCount) IN
        /\ queue' = Append(queue, call.upd)
        /\ uuidCount' = call.uuids
        /\ UNCHANGED <<state, clock>>

\* a recordInbound that takes whatever quantity it is given
AnyQuantityTaken(quantity) == FALSE

\* !quantity || quantity <= 0
NotPositive(quantity) == quantity = 0 \/ quantity <= 0

\* recordInbound returns before setState when the quantity is not positive
RecordInboundCall(quantities, options) ==
    /\ RoomInQueue
    /\ Called
    /\ \E itemId \in ItemIds, quantity \in quantities, opts \in options :
        /\ IF NotPositive(quantity)
           THEN UNCHANGED queue
           ELSE queue' = Append(queue,
                    [op |-> "inbound", itemId |-> itemId, quantity |-> quantity,
                     source |-> "Donation", donor |-> Undef, location |-> Undef,
                     timestamp |-> OrElseNum(opts, "timestamp", clock)])
        /\ UNCHANGED <<state, uuidCount, clock>>

OutboundUpdate(client, items, location, timestamp, closure) ==
    [op |-> "outbound", client |-> client, items |-> items,
     location |-> location, timestamp |-> timestamp, closure |-> closure]

\* setState(updater) with nothing pending runs the updater at once, on the
\* committed state, and keeps its result as the update's eager state; the
\* updater upsertClient enqueues from inside it then precedes it in the queue
RecordOutboundEager(u) ==
    LET r == RecordOutbound(state, u, clock, uuidCount) IN
    /\ queue = <<>>
    /\ queue' = r.nested \o <<[op |-> "eagerState", eagerState |-> r.st,
                               call |-> u]>>
    /\ uuidCount' = r.uuids

\* setState(updater) otherwise leaves the updater to the next render
RecordOutboundDeferred(u) ==
    /\ RoomInQueue
    /\ queue' = Append(queue, u)
    /\ UNCHANGED uuidCount

\* a recordOutbound that takes a cart without lines
NoCartIsEmpty(items) == FALSE

\* !options.items.length
EmptyCart(items) == Len(items) = 0

\* recordOutbound returns before setState when the cart is empty
RecordOutboundCall(clients, carts, options) ==
    /\ Called
    /\ \E client \in clients, items \in carts, opts \in options :
        LET u == OutboundUpdate(client, items, Undef,
                                OrElseNum(opts, "timestamp", clock),
                                state.clients) IN
        /\ IF EmptyCart(items)
           THEN UNCHANGED <<queue, uuidCount>>
           ELSE RecordOutboundEager(u) \/ RecordOutboundDeferred(u)
        /\ UNCHANGED <<state, clock>>

\* time passes between two steps of the program
Tick ==
    /\ clock < MaxClock
    /\ clock' = clock + 1
    /\ UNCHANGED <<state, queue, uuidCount, calls>>

\* the render commits the state r.st its passes end in, and its effect
\* saves it; failures are the outcomes setItem may have
Commit(r, failures) ==
    /\ state' = r.st
    /\ uuidCount' = r.uuids
    /\ queue' = <<>>
    /\ \E fails \in failures : store' = saveState(store, r.st, fails)

Render(failures) ==
    /\ queue # <<>>
    /\ Commit(Rendered(state, queue, clock, uuidCount), failures)
    /\ UNCHANGED <<clock, calls, loaded>>

\* a step in which a render applies the pending updaters
RenderStep == queue # <<>> /\ queue' = <<>> /\ calls' = calls

\* upsertBarcodeCache
UpsertBarcodeCacheCall(barcodes, entries) ==
    /\ RoomInQueue
    /\ Called
    /\ \E barcode \in barcodes, entry \in entries :
        /\ queue' = Append(queue, [op |-> "cache", barcode |-> barcode,
                                   entry |-> entry, cachedAt |-> clock])
        /\ UNCHANGED <<state, uuidCount, clock>>

\* addSource
AddSourceCall(sources) ==
    /\ RoomInQueue
    /\ Called
    /\ \E source \in sources :
        queue' = Append(queue, [op |-> "addSource", source |-> source])
    /\ UNCHANGED <<state, uuidCount, clock>>

\* addDonor
AddDonorCall(donors) ==
    /\ RoomInQueue
    /\ Called
    /\ \E donor \in donors :
        queue' = Append(queue, [op |-> "addDonor", donor |-> donor])
    /\ UNCHANGED <<state, uuidCount, clock>>

\* the provider after it is constructed again (the page is loaded anew):
\* useState(() => loadState()), then the effect of the first render
Constructed(read, failures) ==
    /\ loaded' = [read |-> read, ret |-> loadState(read)]
    /\ state' = loadState(read)
    /\ \E fails \in failures : store' = saveState(store, loadState(read), fails)

Reload(failures) ==
    /\ Called
    /\ \E read \in {store, ReadError} : Constructed(read, failures)
    /\ queue' = <<>>
    /\ cart' = <<>>
    /\ inflight' = <<>>
    /\ UNCHANGED <<uuidCount, clock, handled>>

\* what else than saveState may leave in the store: nothing, an empty text,
\* a text cut short, the document of an older version that knew no settings
\* and no vocabulary
OlderDocument ==
    [text |-> "json",
     value |-> [inventory |-> <<>>, clients |-> <<>>, transactions |-> <<>>]]

ForeignContents == {Null, EmptyText, Garbage, OlderDocument}

\* (two replacements in a row are one replacement)
StoreReplaced ==
    /\ store \notin ForeignContents
    /\ \E held \in ForeignContents : store' = held
    /\ UNCHANGED <<state, queue, uuidCount, clock, calls, loaded>>

-----------------------------------------------------------------------------
(* The check-out page.  Its handlers are closures of the page's latest     *)
(* render: the inventory, clients and barcodeCache they read, and the      *)
(* engine operations they call, are those of the committed snapshot at the *)
(* time the handler starts, also after an await.  A handler that awaits is *)
(* kept in `inflight` with what it captured.  The page's own setCart       *)
(* updaters read no repository state and are applied as they are called.   *)

\* addToCart's updater
addToCart(prev, itemId, quantity) ==
    IF FindIndex(prev, LAMBDA c : c.itemId = itemId) # 0
    THEN Map(prev, LAMBDA c : IF c.itemId = itemId
                              THEN [c EXCEPT !.quantity = c.quantity + quantity]
                              ELSE c)
    ELSE Append(prev, [itemId |-> itemId, quantity |-> quantity])

\* CartTable's updateQuantity updaters
updateQuantity(prev, itemId, quantity) ==
    IF quantity <= 0
    THEN SelectSeq(prev, LAMBDA c : c.itemId # itemId)
    ELSE Map(prev, LAMBDA c : IF c.itemId = itemId
                              THEN [c EXCEPT !.quantity = quantity]
                              ELSE c)

\* handleSubmit's stock validation: no line of the cart asks for more than the
\* item has on hand; a line whose item is not found is skipped
StockValidated(lines, inventory) ==
    \A k \in 1..Len(lines) :
        LET at == FindIndex(inventory, LAMBDA i : i.id = lines[k].itemId) IN
        at # 0 => lines[k].quantity <= inventory[at].quantity

\* the client handleSubmit passes to recordOutbound, from the form's fields
SubmittedClient(form) ==
    LET clientNameFinal == Trim(form.clientName)
        identifierFinal ==
            IF Truthy(Trim(form.clientIdentifier)) THEN Trim(form.clientIdentifier)
            ELSE IF Truthy(clientNameFinal) THEN clientNameFinal
            ELSE "Unknown"
    IN  [id |-> IF Truthy(form.clientId) /\ form.clientId # "new"
                THEN form.clientId ELSE Undef,
         name |-> clientNameFinal,
         identifier |-> identifierFinal,
         contact |-> IF Truthy(Trim(form.clientContact))
                     THEN Trim(form.clientContact) ELSE Undef]

\* the form as the volunteer fills it: a new client or one selected, with or
\* without an identifier
ClientForms ==
    {[clientId |-> id, clientName |-> "Jane", clientIdentifier |-> ident,
      clientContact |-> ""] : id \in {"new"} \cup KnownClientIds,
                              ident \in {"J1", ""}}

\* the product a barcode lookup answers with: its name, or "none" when the
\* lookup fails or knows no such product
Lookups == {"none", "Rice"}

Without(seq, k) == [i \in 1..(Len(seq) - 1) |-> IF i < k THEN seq[i] ELSE seq[i + 1]]

CalledTimes(k) ==
    /\ calls + k <= MaxCalls
    /\ calls' = calls + k

\* a handler invoked by a user's event; React has rendered the updates
\* pending before it dispatches the event
Handled ==
    /\ queue = <<>>
    /\ handled < MaxHandled
    /\ handled' = handled + 1

\* the item select: the items of the rendered inventory
AddToCart ==
    /\ Handled
    /\ \E k \in 1..Len(state.inventory) :
        cart' = addToCart(cart, state.inventory[k].id, 1)
    /\ UNCHANGED <<engineVars, inflight>>

\* the quantity input and the Remove button of a cart row; a row is rendered
\* only for a line whose item is in the rendered inventory
UpdateQuantity ==
    /\ Handled
    /\ \E k \in 1..Len(cart), quantity \in {0, 2} :
        /\ FindIndex(state.inventory, LAMBDA i : i.id = cart[k].itemId) # 0
        /\ quantity # cart[k].quantity
        /\ cart' = updateQuantity(cart, cart[k].itemId, quantity)
    /\ UNCHANGED <<engineVars, inflight>>

\* handleBarcodeScanned up to its await of the lookup
ScanStart ==
    /\ Len(inflight) < MaxInFlight
    /\ Handled
    /\ \E code \in {"123", " 123 "} :
        /\ Truthy(Trim(code))
        /\ inflight' = Append(inflight,
                [handler |-> "scan", trimmed |-> Trim(code),
                 inventory |-> state.inventory,
                 barcodeCache |-> state.barcodeCache])
    /\ UNCHANGED <<engineVars, cart>>

\* the item a scan creates, by the captured addOrUpdateItem
ScanCreates(h, name, category, weight, before) ==
    LET call == addOrUpdateItem(h.inventory,
                    [name |-> name, category |-> category, barcode |-> h.trimmed,
                     quantity |-> 0, weightPerUnitLbs |-> weight],
                    clock, uuidCount) IN
    /\ Len(queue) + Len(before) < MaxQueue
    /\ CalledTimes(Len(before) + 1)
    /\ queue' = queue \o before \o <<call.upd>>
    /\ uuidCount' = call.uuids
    /\ cart' = addToCart(cart, call.ret.id, 1)
    /\ UNCHANGED <<state, clock>>

ScanAdds(itemId) ==
    /\ cart' = addToCart(cart, itemId, 1)
    /\ UNCHANGED engineVars

\* handleBarcodeScanned after the lookup has answered
ScanResume ==
    \E k \in 1..Len(inflight), product \in Lookups :
        LET h == inflight[k]
            existing == FindIndex(h.inventory, LAMBDA i : Get(i, "barcode") = h.trimmed)
            cached == Get(h.barcodeCache, h.trimmed)
        IN
        /\ h.handler = "scan"
        /\ inflight' = Without(inflight, k)
        /\ UNCHANGED handled
        /\ IF product # "none"
           THEN IF existing # 0
                THEN ScanAdds(h.inventory[existing].id)
                ELSE ScanCreates(h, product, "Uncategorized", 0,
                        <<[op |-> "cache", barcode |-> h.trimmed,
                           cachedAt |-> clock,
                           entry |-> [name |-> product,
                                      category |-> "Uncategorized",
                                      weightPerUnitLbs |-> 0]]>>)
           ELSE IF existing # 0
                THEN ScanAdds(h.inventory[existing].id)
                ELSE IF cached # Undef /\ Truthy(cached.name)
                     THEN ScanCreates(h, cached.name, Get(cached, "category"),
                                      cached.weightPerUnitLbs, <<>>)
                     ELSE UNCHANGED <<engineVars, cart>>

\* handleSubmit up to its await of the location: it returns at once on an
\* empty cart, a missing name, or a line above the rendered stock
SubmitStart ==
    /\ Len(inflight) < MaxInFlight
    /\ Handled
    /\ cart # <<>>
    /\ StockValidated(cart, state.inventory)
    /\ \E form \in ClientForms :
        /\ Truthy(Trim(form.clientName))
        /\ inflight' = Append(inflight,
                [handler |-> "submit", cart |-> cart,
                 client |-> SubmittedClient(form), clients |-> state.clients])
    /\ UNCHANGED <<engineVars, cart>>

\* handleSubmit after the location has answered: recordOutbound, and the
\* cart is cleared when it returns a client
SubmitResume ==
    \E k \in 1..Len(inflight), location \in {Undef, "here"} :
        LET h == inflight[k]
            u == OutboundUpdate(h.client, h.cart, location, clock, h.clients)
        IN
        /\ h.handler = "submit"
        /\ inflight' = Without(inflight, k)
        /\ UNCHANGED handled
        /\ CalledTimes(1)
        /\ \/ RecordOutboundEager(u) /\ cart' = <<>>
           \/ RecordOutboundDeferred(u) /\ UNCHANGED cart
        /\ UNCHANGED <<state, clock>>

-----------------------------------------------------------------------------
(* The check-in page (src/unnamed/part_003).  Its form fields are inputs   *)
(* of handleSubmit; the handler awaits the location between its            *)
(* addOrUpdateItem and its recordInbound.  The volunteer submits one form  *)
(* at a time.                                                              *)

\* the form as it is submitted: an item selected from the rendered inventory
\* or none, a quantity, and the new item's name and barcode as typed
CheckInForms ==
    {[mode |-> mode, selectedId |-> selectedId, quantity |-> quantity,
      name |-> name, barcode |-> barcode] :
        mode \in {"existing", "new"},
        selectedId \in {""} \cup {state.inventory[i].id :
                                    i \in 1..Len(state.inventory)},
        quantity \in {0, 1, 2},
        name \in {"Rice", " "},
        barcode \in {"", " 123 "}}

\* the partial handleSubmit passes to addOrUpdateItem in 'new' mode
CheckInPartial(form) ==
    [name |-> Trim(form.name),
     category |-> "Uncategorized",
     barcode |-> IF Truthy(Trim(form.barcode)) THEN Trim(form.barcode) ELSE Undef,
     quantity |-> 0,
     weightPerUnitLbs |-> 0,
     valuePerUnitUsd |-> 0]

\* what the item a submit is about has on hand when the form is submitted
\* (0 for an item that is not in the inventory); kept for the record only
OnHandAtSubmit(inventory, at) == IF at = 0 THEN 0 ELSE inventory[at].quantity

\* handleSubmit in 'new' mode up to its await
CheckInCreates(form) ==
    LET call == addOrUpdateItem(state.inventory, CheckInPartial(form),
                                clock, uuidCount) IN
    /\ Truthy(Trim(form.name))
    /\ CalledTimes(1)
    /\ queue' = Append(queue, call.upd)
    /\ uuidCount' = call.uuids
    /\ inflight' = Append(inflight,
            [handler |-> "checkin", itemId |-> call.ret.id,
             quantity |-> form.quantity,
             onHand |-> OnHandAtSubmit(state.inventory,
                            ResolveItem(state.inventory, CheckInPartial(form)))])

\* handleSubmit in 'existing' mode up to its await
CheckInSelects(form) ==
    /\ Truthy(form.selectedId)
    /\ inflight' = Append(inflight,
            [handler |-> "checkin", itemId |-> form.selectedId,
             quantity |-> form.quantity,
             onHand |-> OnHandAtSubmit(state.inventory,
                            FindIndex(state.inventory,
                                      LAMBDA i : i.id = form.selectedId))])
    /\ UNCHANGED <<queue, uuidCount, calls>>

CheckInSubmitStart ==
    /\ inflight = <<>>
    /\ Handled
    /\ \E form \in CheckInForms :
        /\ ~NotPositive(form.quantity)
        /\ IF form.mode = "new" THEN CheckInCreates(form)
           ELSE CheckInSelects(form)
    /\ UNCHANGED <<state, clock, cart>>

\* handleSubmit after the location has answered: recordInbound
CheckInSubmitResume ==
    \E k \in 1..Len(inflight), location \in {Undef, "here"} :
        LET h == inflight[k] IN
        /\ h.handler = "checkin"
        /\ RoomInQueue
        /\ CalledTimes(1)
        /\ queue' = Append(queue,
                [op |-> "inbound", itemId |-> h.itemId, quantity |-> h.quantity,
                 source |-> Undef, donor |-> Undef, location |-> location,
                 timestamp |-> clock, onHandAtSubmit |-> h.onHand])
        /\ inflight' = Without(inflight, k)
        /\ UNCHANGED <<state, uuidCount, clock, cart, handled>>

-----------------------------------------------------------------------------
(* The REST facade (src/unnamed/part_000): the server keeps its own        *)
(* MemStorage.  Its maps are modelled as the lists of their values in      *)
(* insertion order.  The storage calls of a handler are async functions    *)
(* that await nothing, so a handler runs to its answer before the server   *)
(* takes the next request.                                                 *)

\* randomUUID() of the server: a value it has not handed out yet
ServerUuid(st) == uuid(Len(st.transactions) + Len(st.transactionItems))

\* insertTransactionSchema.safeParse(txBody).success: type is required and
\* is one of the enum's values; the other columns are optional
ValidTransaction(txBody) == Has(txBody, "type") /\ txBody.type \in {"IN", "OUT"}

\* insertTransactionItemSchema.safeParse(...).success: every column but id
\* is required
ValidTransactionItem(item) ==
    {"transactionId", "inventoryItemId", "name", "quantity",
     "weightPerUnitLbs", "valuePerUnitUsd"} \subseteq DOMAIN item

\* MemStorage.createTransaction
createTransaction(st, insert, now) ==
    LET tx == [id |-> ServerUuid(st),
               type |-> insert.type,
               timestamp |-> OrElseNum(insert, "timestamp", now),
               clientName |-> OrElse(insert, "clientName", "null"),
               createdAt |-> now]
    IN  [storage |-> [st EXCEPT !.transactions = Append(@, tx)], ret |-> tx]

\* MemStorage.createTransactionItem
createTransactionItem(st, insert) ==
    LET item == [id |-> ServerUuid(st),
                 transactionId |-> insert.transactionId,
                 inventoryItemId |-> insert.inventoryItemId,
                 name |-> insert.name,
                 quantity |-> insert.quantity,
                 weightPerUnitLbs |-> insert.weightPerUnitLbs,
                 valuePerUnitUsd |-> insert.valuePerUnitUsd]
    IN  [storage |-> [st EXCEPT !.transactionItems = Append(@, item)],
         ret |-> item]

\* the loop over rawItems of POST /api/transactions: the first entry that
\* does not parse ends the handler with status 400
RECURSIVE CreateItems(_, _, _)
CreateItems(st, transactionId, rawItems) ==
    IF rawItems = <<>> THEN [storage |-> st, status |-> 201]
    ELSE LET insert == With(Head(rawItems), "transactionId", transactionId) IN
         IF ~ValidTransactionItem(insert) THEN [storage |-> st, status |-> 400]
         ELSE CreateItems(createTransactionItem(st, insert).storage,
                          transactionId, Tail(rawItems))

\* the handler of POST /api/transactions; a body without an items array is
\* a request whose items key is absent
PostTransaction(st, body, now) ==
    IF ~ValidTransaction(body.tx) THEN [storage |-> st, status |-> 400]
    ELSE LET created == createTransaction(st, body.tx, now) IN
         IF Has(body, "items")
         THEN CreateItems(created.storage, created.ret.id, body.items)
         ELSE [storage |-> created.storage, status |-> 201]

\* the request bodies: a transaction of either type, of a type the enum
\* lacks and of none, with no items array or with up to two entries, each
\* complete or lacking its quantity
TransactionBodies ==
    {[type |-> "IN"], [type |-> "OUT", clientName |-> "Jane"],
     [type |-> "ADJUST"], NoOptions}

RawItems ==
    {[inventoryItemId |-> "u1", name |-> "Rice", quantity |-> 1,
      weightPerUnitLbs |-> "1", valuePerUnitUsd |-> "2"],
     [inventoryItemId |-> "u1", name |-> "Rice",
      weightPerUnitLbs |-> "1", valuePerUnitUsd |-> "2"]}

RequestBodies ==
    {[tx |-> tx] : tx \in TransactionBodies}
    \cup {[tx |-> tx, items |-> items] :
            tx \in TransactionBodies,
            items \in {<<>>} \cup {<<i>> : i \in RawItems}
                        \cup {<<i, j>> : i \in RawItems, j \in RawItems}}

\* the ids of what a storage holds
StoredIds(st) ==
    {st.transactions[k].id : k \in 1..Len(st.transactions)}
        \cup {st.transactionItems[k].id : k \in 1..Len(st.transactionItems)}

\* a POST /api/transactions request is handled and answered
PostTransactionRequest ==
    /\ Len(responses) < MaxRequests
    /\ \E body \in RequestBodies :
        LET r == PostTransaction(storage, body, clock) IN
        /\ storage' = r.storage
        /\ responses' = Append(responses,
                [status |-> r.status, before |-> storage,
                 created |-> StoredIds(r.storage) \ StoredIds(storage)])
    /\ UNCHANGED <<engineVars, pageVars, storeVars>>

(* The server answering requests while time passes *)

NextRest ==
    \/ Tick /\ UNCHANGED <<pageVars, storeVars, serverVars>>
    \/ PostTransactionRequest

SpecRest == Init /\ [][NextRest]_vars

-----------------------------------------------------------------------------
(* The reports page: the distributions of a range of dates, by item and by *)
(* client.  An unset bound of the range (the empty string of the date      *)
(* input) is an absent key.                                                *)

\* tx.timestamp.slice(0, 10): the day an instant falls in
DateOnly(timestamp) == timestamp \div TicksPerDay

Dates == 0..(MaxClock \div TicksPerDay)

ReportRanges ==
    {NoOptions} \cup {[from |-> d] : d \in Dates} \cup {[to |-> d] : d \in Dates}
        \cup {[from |-> d, to |-> e] : d \in Dates, e \in Dates}

\* a filter whose range ends before the day `to`
InRangeBeforeTo(tx, range) ==
    LET dateOnly == DateOnly(tx.timestamp) IN
    IF Has(range, "from") /\ dateOnly < range.from THEN FALSE
    ELSE IF Has(range, "to") /\ dateOnly >= range.to THEN FALSE
    ELSE tx.type = "OUT"

\* the filter of rangeTx
InRange(tx, range) ==
    LET dateOnly == DateOnly(tx.timestamp) IN
    IF Has(range, "from") /\ dateOnly < range.from THEN FALSE
    ELSE IF Has(range, "to") /\ dateOnly > range.to THEN FALSE
    ELSE tx.type = "OUT"

rangeTx(transactions, range) ==
    SelectSeq(transactions, LAMBDA tx : InRange(tx, range))

\* the inner loop of byItem: map.get(itemId) || { name, quantity: 0 }
RECURSIVE AddLines(_, _)
AddLines(map, items) ==
    IF items = <<>> THEN map
    ELSE LET item == Head(items)
             current == IF Has(map, item.itemId) THEN map[item.itemId]
                        ELSE [name |-> item.name, quantity |-> 0]
         IN  AddLines(With(map, item.itemId,
                           [current EXCEPT !.quantity = @ + item.quantity]),
                      Tail(items))

RECURSIVE ByItemFrom(_, _)
ByItemFrom(map, txs) ==
    IF txs = <<>> THEN map
    ELSE ByItemFrom(AddLines(map, Head(txs).items), Tail(txs))

\* byItem, as the map from item id to { name, quantity }
byItem(txs) == ByItemFrom(NoOptions, txs)

\* tx.items.reduce((sum, i) => sum + i.quantity, 0)
RECURSIVE Units(_)
Units(items) ==
    IF items = <<>> THEN 0 ELSE Units(Tail(items)) + Head(items).quantity

\* tx.clientId || tx.clientName || "unknown"
ClientKey(tx) ==
    IF Truthy(Get(tx, "clientId")) THEN tx.clientId
    ELSE IF Truthy(Get(tx, "clientName")) THEN tx.clientName
    ELSE "unknown"

RECURSIVE ByClientFrom(_, _)
ByClientFrom(map, txs) ==
    IF txs = <<>> THEN map
    ELSE LET tx == Head(txs)
             id == ClientKey(tx)
             name == IF Truthy(Get(tx, "clientName")) THEN tx.clientName
                     ELSE "Unknown"
             current == IF Has(map, id) THEN map[id]
                        ELSE [name |-> name, visits |-> 0, units |-> 0]
         IN  ByClientFrom(With(map, id,
                               [current EXCEPT !.visits = @ + 1,
                                               !.units = @ + Units(tx.items)]),
                          Tail(txs))

\* byClient, as the map from client key to { name, visits, units }
byClient(txs) == ByClientFrom(NoOptions, txs)

-----------------------------------------------------------------------------
(* Inventory work: the item operations, with every shape of partial *)

NextItems ==
    \/ AddOrUpdateItem(ItemPartials) /\ UNCHANGED <<pageVars, storeVars, serverVars>>
    \/ AdjustItemQuantityCall({-3, -1, 1}) /\ UNCHANGED <<pageVars, storeVars, serverVars>>
    \/ Render({FALSE}) /\ UNCHANGED <<pageVars, serverVars>>

SpecItems == Init /\ [][NextItems]_vars

(* Receiving and distributing: every operation of the engine *)

Next ==
    \/ AddOrUpdateItem(StockPartials) /\ UNCHANGED <<pageVars, storeVars, serverVars>>
    \/ AdjustItemQuantityCall({-1}) /\ UNCHANGED <<pageVars, storeVars, serverVars>>
    \/ UpsertClient(ClientPartials) /\ UNCHANGED <<pageVars, storeVars, serverVars>>
    \/ RecordInboundCall({-1, 0, 1}, {NoOptions}) /\ UNCHANGED <<pageVars, storeVars, serverVars>>
    \/ RecordOutboundCall(ClientOptions, Carts, {NoOptions})
            /\ UNCHANGED <<pageVars, storeVars, serverVars>>
    \/ Render({FALSE}) /\ UNCHANGED <<pageVars, serverVars>>

Spec == Init /\ [][Next]_vars

(* Receiving and distributing while time passes, by callers that give the  *)
(* time of the movement themselves or leave it to the engine               *)

NextClock ==
    \/ Tick /\ UNCHANGED <<pageVars, storeVars, serverVars>>
    \/ AddOrUpdateItem(StockPartials) /\ UNCHANGED <<pageVars, storeVars, serverVars>>
    \/ AdjustItemQuantityCall({-1}) /\ UNCHANGED <<pageVars, storeVars, serverVars>>
    \/ UpsertClient(ClientEntries) /\ UNCHANGED <<pageVars, storeVars, serverVars>>
    \/ RecordInboundCall({0, 1}, Timestamps) /\ UNCHANGED <<pageVars, storeVars, serverVars>>
    \/ RecordOutboundCall(ClientOptions, OneLineCarts, Timestamps)
            /\ UNCHANGED <<pageVars, storeVars, serverVars>>
    \/ Render({FALSE}) /\ UNCHANGED <<pageVars, serverVars>>

SpecClock == Init /\ [][NextClock]_vars

(* The engine and its durable store: setItem may raise, the store may be   *)
(* emptied or damaged from outside, and the page may be loaded anew        *)

CacheEntries == {[name |-> "Rice", category |-> Undef, weightPerUnitLbs |-> 0]}

NextStore ==
    \/ AddOrUpdateItem(StockPartials) /\ UNCHANGED <<pageVars, storeVars, serverVars>>
    \/ RecordInboundCall({0, 1}, {NoOptions}) /\ UNCHANGED <<pageVars, storeVars, serverVars>>
    \/ RecordOutboundCall(ClientOptions, OneLineCarts, {NoOptions})
            /\ UNCHANGED <<pageVars, storeVars, serverVars>>
    \/ UpsertBarcodeCacheCall({"123"}, CacheEntries)
            /\ UNCHANGED <<pageVars, storeVars, serverVars>>
    \/ Render(BOOLEAN) /\ UNCHANGED <<pageVars, serverVars>>
    \/ Reload(BOOLEAN) /\ UNCHANGED serverVars
    \/ StoreReplaced /\ UNCHANGED <<pageVars, serverVars>>

SpecStore == Init /\ [][NextStore]_vars

(* Receiving with a store whose writes succeed.  React renders every       *)
(* update it has scheduled: a render that stays possible happens.          *)

NextPersist ==
    \/ AddOrUpdateItem({[name |-> "Rice", quantity |-> 2]})
            /\ UNCHANGED <<pageVars, storeVars, serverVars>>
    \/ AdjustItemQuantityCall({-1}) /\ UNCHANGED <<pageVars, storeVars, serverVars>>
    \/ RecordInboundCall({1}, {NoOptions}) /\ UNCHANGED <<pageVars, storeVars, serverVars>>
    \/ Render({FALSE}) /\ UNCHANGED <<pageVars, serverVars>>

SpecPersist ==
    /\ Init
    /\ [][NextPersist]_vars
    /\ WF_queue(RenderStep)

(* Barcode lookups: what a lookup answers is cached, for two barcodes, as  *)
(* a full entry or as a name only, while time passes                       *)

LookupEntries ==
    {[name |-> "Rice", category |-> "Grains", weightPerUnitLbs |-> 1],
     [name |-> "Beans"]}

NextCache ==
    \/ Tick /\ UNCHANGED <<pageVars, storeVars, serverVars>>
    \/ UpsertBarcodeCacheCall({"123", "456"}, LookupEntries)
            /\ UNCHANGED <<pageVars, storeVars, serverVars>>
    \/ AddOrUpdateItem({[name |-> "Rice", barcode |-> "123"]})
            /\ UNCHANGED <<pageVars, storeVars, serverVars>>
    \/ Render({FALSE}) /\ UNCHANGED <<pageVars, serverVars>>

SpecCache == Init /\ [][NextCache]_vars

(* Distributing over days: stock is received and handed out to clients   *)
(* while time passes, for the reports page to read                         *)

ReportClients ==
    {[id |-> Undef, name |-> "Jane", identifier |-> "J1", contact |-> Undef],
     [id |-> Undef, name |-> "Joe", identifier |-> "J2", contact |-> Undef]}

\* carts of the items on hand: of one line, and of one unit of each of two
ReportCarts ==
    {<<[itemId |-> id, quantity |-> q]>> : id \in KnownItemIds, q \in {1, 2}}
        \cup {c \in {<<[itemId |-> id, quantity |-> 1],
                        [itemId |-> other, quantity |-> 1]>> :
                            id \in KnownItemIds, other \in KnownItemIds} :
                 c[1].itemId # c[2].itemId}

NextReport ==
    \/ Tick /\ UNCHANGED <<pageVars, storeVars, serverVars>>
    \/ AddOrUpdateItem({[name |-> "Rice", quantity |-> 2],
                        [name |-> "Beans", quantity |-> 2]})
            /\ UNCHANGED <<pageVars, storeVars, serverVars>>
    \/ RecordInboundCall({0, 1}, {NoOptions}) /\ UNCHANGED <<pageVars, storeVars, serverVars>>
    \/ RecordOutboundCall(ReportClients, ReportCarts, {NoOptions})
            /\ UNCHANGED <<pageVars, storeVars, serverVars>>
    \/ Render({FALSE}) /\ UNCHANGED <<pageVars, serverVars>>

SpecReport == Init /\ [][NextReport]_vars

(* Receiving and distributing items known by barcode: an item is created   *)
(* by barcode and later upserted by a caller that names an id together      *)
(* with the barcode                                                        *)

BarcodePartials ==
    {[name |-> "Rice", barcode |-> "123", quantity |-> 2]}
    \cup {[id |-> id, name |-> "Beans", barcode |-> "123"] : id \in ItemIds}

NextLedgerItems ==
    \/ AddOrUpdateItem(BarcodePartials) /\ UNCHANGED <<pageVars, storeVars, serverVars>>
    \/ RecordInboundCall({0, 1}, {NoOptions}) /\ UNCHANGED <<pageVars, storeVars, serverVars>>
    \/ RecordOutboundCall(ReportClients, OneLineCarts, {NoOptions})
            /\ UNCHANGED <<pageVars, storeVars, serverVars>>
    \/ Render({FALSE}) /\ UNCHANGED <<pageVars, serverVars>>

SpecLedgerItems == Init /\ [][NextLedgerItems]_vars

(* Stock that moves through the ledger only: items are created empty, and  *)
(* every distribution is called on the state it will be applied to, for    *)
(* items of that state and for no more units than they have on hand        *)

NoOutboundPending ==
    \A k \in 1..Len(queue) : queue[k].op \notin {"outbound", "eagerState"}

StockedCarts ==
    {c \in Carts :
        \A k \in 1..Len(c) :
            /\ Exists(state.inventory, c[k].itemId)
            /\ c[k].quantity > 0
            /\ UnitsAsked(c, c[k].itemId) <= OnHand(state.inventory, c[k].itemId)}

NextBalance ==
    \/ AddOrUpdateItem({[name |-> "Rice"]}) /\ UNCHANGED <<pageVars, storeVars, serverVars>>
    \/ RecordInboundCall({0, 1, 2}, {NoOptions}) /\ UNCHANGED <<pageVars, storeVars, serverVars>>
    \/ NoOutboundPending /\ RecordOutboundCall(ReportClients, StockedCarts, {NoOptions})
            /\ UNCHANGED <<pageVars, storeVars, serverVars>>
    \/ Render({FALSE}) /\ UNCHANGED <<pageVars, serverVars>>

SpecBalance == Init /\ [][NextBalance]_vars

(* Distributing with carts as any caller of the engine may build them:     *)
(* lines of a negative quantity, of none, of one unit and of more units    *)
(* than are on hand                                                        *)

AnyCarts ==
    {<<>>} \cup {<<[itemId |-> id, quantity |-> q]>> :
                    id \in ItemIds, q \in {-1, 0, 1, 3}}

NextAnyCart ==
    \/ AddOrUpdateItem({[name |-> "Rice", quantity |-> 2]})
            /\ UNCHANGED <<pageVars, storeVars, serverVars>>
    \/ RecordOutboundCall(ReportClients, AnyCarts, {NoOptions})
            /\ UNCHANGED <<pageVars, storeVars, serverVars>>
    \/ Render({FALSE}) /\ UNCHANGED <<pageVars, serverVars>>

SpecAnyCart == Init /\ [][NextAnyCart]_vars

(* Distributing only: items are stocked and carts, also empty ones, are   *)
(* handed to recordOutbound                                                *)

NextDistribute ==
    \/ AddOrUpdateItem(StockPartials) /\ UNCHANGED <<pageVars, storeVars, serverVars>>
    \/ RecordOutboundCall(ClientOptions, Carts, {NoOptions})
            /\ UNCHANGED <<pageVars, storeVars, serverVars>>
    \/ Render({FALSE}) /\ UNCHANGED <<pageVars, serverVars>>

SpecDistribute == Init /\ [][NextDistribute]_vars

(* Inventory work with reorder thresholds: items are created with and     *)
(* without one, a threshold is set on an item later, and stock is adjusted *)

ThresholdPartials ==
    {[name |-> "Rice", quantity |-> 1]}
    \cup {[name |-> "Beans", quantity |-> quantity, reorderThreshold |-> threshold] :
            quantity \in {0, 2}, threshold \in {0, 1}}
    \cup {[id |-> id, name |-> "Rice", reorderThreshold |-> threshold] :
            id \in KnownItemIds, threshold \in {0, 2}}

NextThreshold ==
    \/ AddOrUpdateItem(ThresholdPartials) /\ UNCHANGED <<pageVars, storeVars, serverVars>>
    \/ AdjustItemQuantityCall({-1, 1}) /\ UNCHANGED <<pageVars, storeVars, serverVars>>
    \/ Render({FALSE}) /\ UNCHANGED <<pageVars, serverVars>>

SpecThreshold == Init /\ [][NextThreshold]_vars

(* The check-in page at work *)

NextCheckIn ==
    \/ CheckInSubmitStart /\ UNCHANGED <<storeVars, serverVars>>
    \/ CheckInSubmitResume /\ UNCHANGED <<storeVars, serverVars>>
    \/ Render({FALSE}) /\ UNCHANGED <<pageVars, serverVars>>

SpecCheckIn == Init /\ [][NextCheckIn]_vars

(* The vocabulary: a seed entry, a new one and the new one in capitals are *)
(* added while receiving goes on                                           *)

NextVocabulary ==
    \/ AddSourceCall({"Donation", "Pantry", "PANTRY"})
            /\ UNCHANGED <<pageVars, storeVars, serverVars>>
    \/ AddDonorCall({"Local Grocery", "Church"})
            /\ UNCHANGED <<pageVars, storeVars, serverVars>>
    \/ AddOrUpdateItem(StockPartials) /\ UNCHANGED <<pageVars, storeVars, serverVars>>
    \/ RecordInboundCall({1}, {NoOptions}) /\ UNCHANGED <<pageVars, storeVars, serverVars>>
    \/ Render({FALSE}) /\ UNCHANGED <<pageVars, serverVars>>

SpecVocabulary == Init /\ [][NextVocabulary]_vars

(* Loading what an earlier version of the program left in the store: a     *)
(* document with any of the top-level fields, each with a value that is    *)
(* not its default                                                         *)

PersistedFields ==
    [inventory |-> <<[id |-> "u1", name |-> "Rice", category |-> "Grains",
                      quantity |-> 2, weightPerUnitLbs |-> 1,
                      valuePerUnitUsd |-> 2, createdAt |-> 1, updatedAt |-> 1]>>,
     clients |-> <<[id |-> "u2", name |-> "Jane", identifier |-> "J1",
                    createdAt |-> 1, updatedAt |-> 1]>>,
     transactions |-> <<[id |-> "u3", type |-> "IN", timestamp |-> 1,
                         items |-> <<[itemId |-> "u1", name |-> "Rice",
                                      quantity |-> 2, weightPerUnitLbs |-> 1,
                                      valuePerUnitUsd |-> 2]>>,
                         source |-> "Pantry"]>>,
     settings |-> [visitWarningDays |-> 14],
     barcodeCache |-> [b \in {"123"} |-> [name |-> "Rice", cachedAt |-> 1]],
     sources |-> <<"Pantry">>,
     donors |-> <<>>]

PartialDocuments ==
    {[text |-> "json", value |-> [k \in present |-> PersistedFields[k]]] :
        present \in SUBSET DOMAIN PersistedFields}

InitLoad ==
    /\ store \in PartialDocuments
    /\ loaded = [read |-> Null, ret |-> defaultState]
    /\ state = defaultState
    /\ queue = <<>>
    /\ uuidCount = 3
    /\ clock = 1
    /\ calls = 0
    /\ cart = <<>>
    /\ inflight = <<>>
    /\ handled = 0
    /\ storage = [transactions |-> <<>>, transactionItems |-> <<>>]
    /\ responses = <<>>

NextLoad == Reload(BOOLEAN) /\ UNCHANGED serverVars

SpecLoad == InitLoad /\ [][NextLoad]_vars

(* The check-out page at work, while the inventory page stocks, edits and  *)
(* adjusts items                                                           *)

NextCheckOut ==
    \/ AddOrUpdateItem(StockPartials) /\ UNCHANGED <<pageVars, storeVars, serverVars>>
    \/ AdjustItemQuantityCall({-1}) /\ UNCHANGED <<pageVars, storeVars, serverVars>>
    \/ Render({FALSE}) /\ UNCHANGED <<pageVars, serverVars>>
    \/ AddToCart /\ UNCHANGED <<storeVars, serverVars>>
    \/ UpdateQuantity /\ UNCHANGED <<storeVars, serverVars>>
    \/ ScanStart /\ UNCHANGED <<storeVars, serverVars>>
    \/ ScanResume /\ UNCHANGED <<storeVars, serverVars>>
    \/ SubmitStart /\ UNCHANGED <<storeVars, serverVars>>
    \/ SubmitResume /\ UNCHANGED <<storeVars, serverVars>>

SpecCheckOut == Init /\ [][NextCheckOut]_vars

-----------------------------------------------------------------------------
(* What the pending updaters will do at the next render *)

Steps == RenderSteps(state, queue, clock, uuidCount)

-----------------------------------------------------------------------------
\* C1: after any sequence of engine operations, every inventory item's
\* quantity is >= 0.
QuantityNeverNegative ==
    \A i \in 1..Len(state.inventory) : state.inventory[i].quantity >= 0

\* whether the updater of a recordInbound / recordOutbound call records a
\* transaction in the state it is applied to
Accepted(prev, u) ==
    CASE u.op = "inbound" -> Exists(prev.inventory, u.itemId)
      [] u.op = "outbound" ->
            \E k \in 1..Len(u.items) : Exists(prev.inventory, u.items[k].itemId)
      [] u.op = "eagerState" ->
            \E k \in 1..Len(u.call.items) :
                Exists(prev.inventory, u.call.items[k].itemId)
      [] OTHER -> FALSE

\* C2: applied to a state, the updater of a recordInbound or recordOutbound
\* call adds exactly one transaction when the call is accepted there and none
\* when it is rejected, and the updater of no other operation changes the
\* number of transactions; so the number never decreases.
LedgerGrowsByOnePerCall ==
    LET steps == Steps IN
    \A k \in 1..Len(steps) :
        Len(steps[k].next.transactions) - Len(steps[k].prev.transactions)
            = IF Accepted(steps[k].prev, steps[k].upd) THEN 1 ELSE 0

\* C2 happens: the ledger holds a transaction of each kind
LedgerHasBothKinds ==
    /\ \E t \in 1..Len(state.transactions) : state.transactions[t].type = "IN"
    /\ \E t \in 1..Len(state.transactions) : state.transactions[t].type = "OUT"

IsSuffix(old, new) ==
    /\ Len(new) >= Len(old)
    /\ SubSeq(new, Len(new) - Len(old) + 1, Len(new)) = old

\* C3: the ledger is append-only: every step keeps every transaction, with
\* the content and in the order it had, and only adds transactions in front.
LedgerAppendOnly ==
    [][IsSuffix(state.transactions, state'.transactions)]_vars

\* C3 happens: the ledger holds two transactions, and a line of one names
\* the one item of the inventory, which was renamed since
LedgerKeptAcrossAnEdit ==
    /\ Len(state.transactions) >= 2
    /\ Len(state.inventory) = 1
    /\ \E t \in 1..Len(state.transactions) :
        \E l \in 1..Len(state.transactions[t].items) :
        \E i \in 1..Len(state.inventory) :
            /\ state.transactions[t].items[l].itemId = state.inventory[i].id
            /\ state.transactions[t].items[l].name # state.inventory[i].name
            /\ state.transactions[t].items[l].weightPerUnitLbs
                    # state.inventory[i].weightPerUnitLbs

IsItemUpsert(u) == u.op \in {"replaceItem", "appendItem"}

\* C4: the updater of an upsertInventoryItem call that carries a barcode (and
\* no matching id), applied to a state in which an item has that barcode,
\* creates no item and leaves that item with the name of the partial.
UpsertByBarcodeUpdates ==
    \A k \in 1..Len(Steps) :
        LET s == Steps[k]
            p == s.upd.partial
            found == FindIndex(s.prev.inventory, LAMBDA i : i.barcode = p.barcode)
        IN  ( /\ IsItemUpsert(s.upd)
              /\ Truthy(Get(p, "barcode"))
              /\ ~Exists(s.prev.inventory, Get(p, "id"))
              /\ found # 0 )
            => /\ Len(s.next.inventory) = Len(s.prev.inventory)
               /\ s.next.inventory[found].name = p.name

\* C5: in every reachable state no two inventory items share an id.
UniqueItemIds ==
    \A i, j \in 1..Len(state.inventory) :
        i # j => state.inventory[i].id # state.inventory[j].id

\* C6: in every reachable state no two distinct inventory items have the
\* same non-empty barcode.
UniqueBarcodes ==
    \A i, j \in 1..Len(state.inventory) :
        (i # j /\ Truthy(state.inventory[i].barcode))
            => state.inventory[i].barcode # state.inventory[j].barcode

\* C7: a recordOutbound call whose cart names no existing item changes
\* nothing: the render that applies it ends in the state it started from.
AbortedOutboundChangesNothing ==
    ( /\ Len(queue) = 1
      /\ queue[1].op = "outbound"
      /\ ~Accepted(state, queue[1]) )
    => Rendered(state, queue, clock, uuidCount).st = state

MatchesNoClient(clients, c) ==
    \A i \in 1..Len(clients) :
        clients[i].id # c.id /\ clients[i].identifier # c.identifier

InStock(inv, items) ==
    \A k \in 1..Len(items) :
        /\ Exists(inv, items[k].itemId)
        /\ items[k].quantity <= OnHand(inv, items[k].itemId)
        /\ \A m \in 1..Len(items) : items[m].itemId = items[k].itemId => m = k

\* C8: a recordOutbound call with a cart of existing items in stock and a
\* client that matches no record takes each line's quantity from its item,
\* adds exactly one client record and exactly one OUT transaction, which
\* names that client and carries the lines' quantities.
NewClientDistribution ==
    ( /\ Len(queue) = 1
      /\ queue[1].op = "outbound"
      /\ InStock(state.inventory, queue[1].items)
      /\ MatchesNoClient(state.clients, queue[1].client) )
    => LET u == queue[1]
           r == Rendered(state, queue, clock, uuidCount).st
           tx == r.transactions[1]
       IN  /\ Len(r.clients) = Len(state.clients) + 1
           /\ Len(r.transactions) = Len(state.transactions) + 1
           /\ tx.type = "OUT"
           /\ tx.clientName = u.client.name
           /\ \E c \in 1..Len(r.clients) :
                 r.clients[c].id = tx.clientId /\ r.clients[c].name = u.client.name
           /\ Len(tx.items) = Len(u.items)
           /\ \A k \in 1..Len(u.items) :
                 /\ tx.items[k].quantity = u.items[k].quantity
                 /\ OnHand(r.inventory, u.items[k].itemId)
                      = OnHand(state.inventory, u.items[k].itemId)
                            - u.items[k].quantity

\* C9: every operation is a read-modify-write of the state its updater is
\* applied to: an upsertInventoryItem call (one that carries its id) leaves
\* the state that the same call, made on that state, would leave.
ReadModifyWrite ==
    \A k \in 1..Len(Steps) :
        LET s == Steps[k] IN
        (IsItemUpsert(s.upd) /\ Has(s.upd.partial, "id"))
        => s.next = ApplyUpdate(s.prev,
                        addOrUpdateItem(s.prev.inventory, s.upd.partial,
                                        clock, s.uuids).upd,
                        clock, s.uuids).st


\* the cart lines of a pending distribution
OutboundLines(u) ==
    IF u.op = "outbound" THEN u.items
    ELSE IF u.op = "eagerState" THEN u.call.items
    ELSE <<>>

\* C10: a check-out submitted from the page distributes, of every item of
\* its cart, no more units than the item has on hand in the state the
\* distribution is applied to, whatever ran while the handler waited for the
\* location
SubmitWithinStock ==
    \A s \in 1..Len(Steps) :
        LET lines == OutboundLines(Steps[s].upd) IN
        \A k \in 1..Len(lines) :
            Exists(Steps[s].prev.inventory, lines[k].itemId)
                => lines[k].quantity
                        <= OnHand(Steps[s].prev.inventory, lines[k].itemId)

\* C11: a recordInbound call with a quantity <= 0 enqueues no updater, so no
\* pending recordInbound updater carries such a quantity; and the updater of
\* a call whose itemId matches no item of the state it is applied to returns
\* that state unchanged (no quantity, no updatedAt, no transaction).
RejectedInboundChangesNothing ==
    LET steps == Steps IN
    \A k \in 1..Len(steps) :
        steps[k].upd.op = "inbound"
        => /\ steps[k].upd.quantity > 0
           /\ ~Exists(steps[k].prev.inventory, steps[k].upd.itemId)
                => steps[k].next = steps[k].prev

\* C11 happens: a recordInbound for an unknown item is pending on a state
\* that holds items and transactions
InboundForUnknownItemPending ==
    /\ state.inventory # <<>>
    /\ state.transactions # <<>>
    /\ Len(queue) = 1
    /\ queue[1].op = "inbound"
    /\ ~Exists(state.inventory, queue[1].itemId)

\* what a recordInbound updater must have done to the state it was applied
\* to, where the item at index `at` is the one it names
InboundApplied(s, at) ==
    LET item == s.prev.inventory[at] IN
    /\ Len(s.next.inventory) = Len(s.prev.inventory)
    /\ \A i \in 1..Len(s.prev.inventory) :
          IF i = at
          THEN s.next.inventory[i] =
                    [item EXCEPT !.quantity = item.quantity + s.upd.quantity,
                                 !.updatedAt = s.next.inventory[i].updatedAt]
          ELSE s.next.inventory[i] = s.prev.inventory[i]
    /\ s.next.clients = s.prev.clients
    /\ Len(s.next.transactions) = Len(s.prev.transactions) + 1
    /\ Tail(s.next.transactions) = s.prev.transactions
    /\ s.next.transactions[1].type = "IN"
    /\ s.next.transactions[1].items =
          <<[itemId |-> s.upd.itemId,
             name |-> item.name,
             quantity |-> s.upd.quantity,
             weightPerUnitLbs |-> item.weightPerUnitLbs,
             valuePerUnitUsd |-> item.valuePerUnitUsd]>>

\* C12: the updater of a recordInbound call with quantity q > 0, applied to
\* a state that holds the item, adds q to that item's quantity, leaves every
\* other item and the clients as they were, and puts one IN transaction in
\* front of the ledger, with one line of the item's id, q, and the item's
\* name, weight and value in the state it was applied to.
AcceptedInboundAddsStock ==
    LET steps == Steps IN
    \A k \in 1..Len(steps) :
        ( /\ steps[k].upd.op = "inbound"
          /\ Exists(steps[k].prev.inventory, steps[k].upd.itemId) )
        => InboundApplied(steps[k],
                FindIndex(steps[k].prev.inventory,
                          LAMBDA i : i.id = steps[k].upd.itemId))

\* C13: the updater of adjustInventoryQuantity(itemId, delta) sets the
\* quantity of the item that matches the id to max(0, quantity + delta),
\* leaving its other fields but updatedAt, and changes nothing else: every
\* item of another id, the clients and the ledger are as they were; applied
\* to a state with no such item it returns the state unchanged.
AdjustChangesOneQuantity ==
    LET steps == Steps IN
    \A k \in 1..Len(steps) :
        LET s == steps[k] IN
        s.upd.op = "adjust"
        => /\ Len(s.next.inventory) = Len(s.prev.inventory)
           /\ \A i \in 1..Len(s.prev.inventory) :
                 IF s.prev.inventory[i].id = s.upd.itemId
                 THEN s.next.inventory[i] =
                        [s.prev.inventory[i] EXCEPT
                            !.quantity = Max(0, s.prev.inventory[i].quantity
                                                    + s.upd.delta),
                            !.updatedAt = s.next.inventory[i].updatedAt]
                 ELSE s.next.inventory[i] = s.prev.inventory[i]
           /\ s.next.clients = s.prev.clients
           /\ s.next.transactions = s.prev.transactions
           /\ s.next.barcodeCache = s.prev.barcodeCache
           /\ ~Exists(s.prev.inventory, s.upd.itemId) => s.next = s.prev

\* C13 happens: an adjustment below zero is pending on an item in stock,
\* next to an item of another id
AdjustBelowZeroPending ==
    /\ Len(queue) = 1
    /\ queue[1].op = "adjust"
    /\ Exists(state.inventory, queue[1].itemId)
    /\ OnHand(state.inventory, queue[1].itemId) > 0
    /\ OnHand(state.inventory, queue[1].itemId) + queue[1].delta < 0
    /\ \E i \in 1..Len(state.inventory) : state.inventory[i].id # queue[1].itemId

\* C14: after an accepted recordOutbound every item's quantity is its
\* previous quantity less the quantities of all the cart lines that name it,
\* clamped at 0, also when several lines name the same item; an item named by
\* no line keeps its quantity.
OutboundTakesEveryLine ==
    LET steps == Steps IN
    \A k \in 1..Len(steps) :
        LET s == steps[k] IN
        Accepted(s.prev, s.upd) /\ OutboundLines(s.upd) # <<>>
        => /\ Len(s.next.inventory) = Len(s.prev.inventory)
           /\ \A i \in 1..Len(s.prev.inventory) :
                 s.next.inventory[i].quantity =
                    Max(0, s.prev.inventory[i].quantity
                            - UnitsAsked(OutboundLines(s.upd),
                                         s.prev.inventory[i].id))

\* C15: the OUT transaction of an accepted recordOutbound has one line for
\* each cart line that names an item of the state it is applied to, in cart
\* order, with the requested quantity and the name, weight and value the
\* item has in that state; a cart line that names no item gives no line, and
\* an item that no cart line names is left as it was.
OutboundLinesSnapshotItems ==
    LET steps == Steps IN
    \A k \in 1..Len(steps) :
        LET s == steps[k]
            named == SelectSeq(OutboundLines(s.upd),
                        LAMBDA l : Exists(s.prev.inventory, l.itemId))
            tx == s.next.transactions[1]
        IN
        Accepted(s.prev, s.upd) /\ OutboundLines(s.upd) # <<>>
        => /\ tx.type = "OUT"
           /\ Len(tx.items) = Len(named)
           /\ \A j \in 1..Len(named) :
                 /\ tx.items[j].itemId = named[j].itemId
                 /\ tx.items[j].quantity = named[j].quantity
                 /\ LET item == s.prev.inventory[
                                    FindIndex(s.prev.inventory,
                                        LAMBDA i : i.id = named[j].itemId)]
                    IN  /\ tx.items[j].name = item.name
                        /\ tx.items[j].weightPerUnitLbs = item.weightPerUnitLbs
                        /\ tx.items[j].valuePerUnitUsd = item.valuePerUnitUsd
           /\ \A i \in 1..Len(s.prev.inventory) :
                 (\A j \in 1..Len(named) :
                        named[j].itemId # s.prev.inventory[i].id)
                 => s.next.inventory[i] = s.prev.inventory[i]

\* C15 happens: a distribution is pending whose cart has two lines, the
\* first naming an item that was edited (name, weight, value) since it was
\* created, the second naming no item
OutboundWithUnknownLinePending ==
    /\ Len(queue) = 1
    /\ queue[1].op = "outbound"
    /\ Len(queue[1].items) = 2
    /\ Exists(state.inventory, queue[1].items[1].itemId)
    /\ ~Exists(state.inventory, queue[1].items[2].itemId)
    /\ OnHand(state.inventory, queue[1].items[1].itemId) > 0
    /\ \E i \in 1..Len(state.inventory) :
          /\ state.inventory[i].id = queue[1].items[1].itemId
          /\ state.inventory[i].name = "Beans"
          /\ state.inventory[i].weightPerUnitLbs = 1

\* C16: an updater leaves every item of the state it is applied to in its
\* place with the id and the createdAt it had, so an id that is in the
\* inventory stays in it.
ItemIdentityKept ==
    LET steps == Steps IN
    \A k \in 1..Len(steps) :
        /\ Len(steps[k].next.inventory) >= Len(steps[k].prev.inventory)
        /\ \A i \in 1..Len(steps[k].prev.inventory) :
              /\ steps[k].next.inventory[i].id = steps[k].prev.inventory[i].id
              /\ steps[k].next.inventory[i].createdAt
                    = steps[k].prev.inventory[i].createdAt

\* C17: from one committed state to the next, the updatedAt of no item and
\* of no client decreases, and none is earlier than the createdAt of its
\* record.
UpdatedAtNeverDecreases ==
    [][/\ \A i \in 1..Len(state.inventory) :
            state'.inventory[i].updatedAt >= state.inventory[i].updatedAt
       /\ \A i \in 1..Len(state.clients), j \in 1..Len(state'.clients) :
            state'.clients[j].id = state.clients[i].id
            => state'.clients[j].updatedAt >= state.clients[i].updatedAt
       /\ \A i \in 1..Len(state'.inventory) :
            state'.inventory[i].updatedAt >= state'.inventory[i].createdAt
       /\ \A j \in 1..Len(state'.clients) :
            state'.clients[j].updatedAt >= state'.clients[j].createdAt]_vars

\* C18: no two client records of a committed state have the same identifier.
UniqueIdentifiers ==
    \A i, j \in 1..Len(state.clients) :
        state.clients[i].identifier = state.clients[j].identifier => i = j

\* two objects whose every field reads the same (a key that is absent reads
\* undefined); the lines of a transaction are compared by SameLedger
SameObject(a, b) ==
    \A k \in (DOMAIN a \cup DOMAIN b) \ {"items"} : Get(a, k) = Get(b, k)

SameList(s, t) ==
    /\ Len(s) = Len(t)
    /\ \A i \in 1..Len(s) : SameObject(s[i], t[i])

SameLedger(s, t) ==
    /\ SameList(s, t)
    /\ \A i \in 1..Len(s) : SameList(s[i].items, t[i].items)

SameCache(a, b) ==
    /\ DOMAIN a = DOMAIN b
    /\ \A k \in DOMAIN a : SameObject(a[k], b[k])

SameState(a, b) ==
    /\ DOMAIN a = DOMAIN b
    /\ SameList(a.inventory, b.inventory)
    /\ SameList(a.clients, b.clients)
    /\ SameLedger(a.transactions, b.transactions)
    /\ a.settings = b.settings
    /\ SameCache(a.barcodeCache, b.barcodeCache)
    /\ a.sources = b.sources
    /\ a.donors = b.donors

LoadFallsBackToDefaults ==
    loaded.read \in {Null, EmptyText, Garbage, ReadError}
    => /\ loaded.ret.inventory = <<>>
       /\ loaded.ret.clients = <<>>
       /\ loaded.ret.transactions = <<>>
       /\ DOMAIN loaded.ret.barcodeCache = {}
       /\ loaded.ret.settings = [visitWarningDays |-> 7]
       /\ loaded.ret.sources = <<"Donation", "Purchase", "Transfer", "Other">>
       /\ loaded.ret.donors = <<"Morgan State University", "Maryland Food Bank",
                                "Local Grocery">>
       /\ DOMAIN loaded.ret = DOMAIN defaultState

\* C20 happens: after operations were called, the provider was constructed
\* from a text that is no JSON document
LoadedGarbage ==
    /\ loaded.read = Garbage
    /\ calls > 1
    /\ state = loaded.ret

\* C21: a loadState that reads a document returns a state in which each
\* top-level field the document has holds the document's value and each
\* field it misses holds the default value.
LoadMergesPerField ==
    (loaded.read # ReadError /\ loaded.read # Null /\ loaded.read # EmptyText
        /\ ~JSONparse(loaded.read).threw)
    => /\ DOMAIN loaded.ret = DOMAIN defaultState
       /\ \A k \in DOMAIN defaultState :
            IF k \in DOMAIN loaded.read.value
            THEN loaded.ret[k] = loaded.read.value[k]
            ELSE loaded.ret[k] = defaultState[k]

\* C21 happens: the provider was constructed from a document that has a
\* ledger and a vocabulary of its own and misses the settings and the donors
LoadedPartialDocument ==
    /\ calls > 0
    /\ loaded.read \in PartialDocuments
    /\ DOMAIN loaded.read.value = {"inventory", "transactions", "sources"}
    /\ state = loaded.ret
    /\ state.sources = <<"Pantry">>
    /\ state.settings.visitWarningDays = 7

\* C22: a render whose save fails commits the state it would commit if the
\* save succeeded, leaves the store as it was, and leaves the provider ready
\* for the next operation (nothing pending, nothing lost of what the latest
\* load returned).
FailedWriteIsSwallowed ==
    [][(RenderStep /\ store' # saveState(store, state', FALSE))
       => /\ state' = Rendered(state, queue, clock, uuidCount).st
          /\ uuidCount' = Rendered(state, queue, clock, uuidCount).uuids
          /\ store' = store
          /\ UNCHANGED <<clock, calls, loaded, pageVars, serverVars>>]_vars

\* C22 happens: the store holds the document of an earlier state than the
\* committed one, which has a distribution the document lacks, and a later
\* operation has been called
OperationAfterFailedWrite ==
    /\ store \notin ForeignContents
    /\ Len(store.value.transactions) < Len(state.transactions)
    /\ queue # <<>>

IsPrefix(s, t) == Len(s) <= Len(t) /\ \A i \in 1..Len(s) : t[i] = s[i]

NoDuplicate(seq) == \A i, j \in 1..Len(seq) : seq[i] = seq[j] => i = j

\* C23: addSource and addDonor append the string they are given when the
\* list of the state they are applied to does not have it, and return that
\* state otherwise; no updater shortens or reorders a list, and no list has
\* an entry twice.
VocabularyAppendOnly ==
    LET steps == Steps IN
    /\ NoDuplicate(state.sources) /\ NoDuplicate(state.donors)
    /\ \A k \in 1..Len(steps) :
        LET s == steps[k] IN
        /\ IsPrefix(s.prev.sources, s.next.sources)
        /\ IsPrefix(s.prev.donors, s.next.donors)
        /\ NoDuplicate(s.next.sources) /\ NoDuplicate(s.next.donors)
        /\ s.upd.op = "addSource"
             => s.next = IF Includes(s.prev.sources, s.upd.source) THEN s.prev
                         ELSE [s.prev EXCEPT
                                 !.sources = s.prev.sources \o <<s.upd.source>>]
        /\ s.upd.op = "addDonor"
             => s.next = IF Includes(s.prev.donors, s.upd.donor) THEN s.prev
                         ELSE [s.prev EXCEPT
                                 !.donors = s.prev.donors \o <<s.upd.donor>>]
        /\ s.upd.op \notin {"addSource", "addDonor"}
             => s.next.sources = s.prev.sources /\ s.next.donors = s.prev.donors

\* C23 happens: the same new source is added twice between two renders, to a
\* vocabulary that already has it in capitals
SourceAddedTwicePending ==
    /\ Len(queue) = 2
    /\ queue[1].op = "addSource" /\ queue[1].source = "Pantry"
    /\ queue[2] = queue[1]
    /\ Includes(state.sources, "PANTRY")
    /\ ~Includes(state.sources, "Pantry")

LowStockIffAtOrBelowThreshold ==
    \A i \in 1..Len(state.inventory) :
        LET item == state.inventory[i] IN
        isLowStock(item)
            <=> (Has(item, "reorderThreshold")
                 /\ item.quantity <= item.reorderThreshold)

\* C25 happens: the inventory has an item out of stock with a threshold of
\* 0, an item out of stock without a threshold, and an item above its
\* threshold
LowStockCasesInInventory ==
    /\ \E i \in 1..Len(state.inventory) :
          /\ Has(state.inventory[i], "reorderThreshold")
          /\ state.inventory[i].reorderThreshold = 0
          /\ state.inventory[i].quantity = 0
          /\ isLowStock(state.inventory[i])
    /\ \E i \in 1..Len(state.inventory) :
          /\ ~Has(state.inventory[i], "reorderThreshold")
          /\ state.inventory[i].quantity = 0
          /\ ~isLowStock(state.inventory[i])
    /\ \E i \in 1..Len(state.inventory) :
          /\ Has(state.inventory[i], "reorderThreshold")
          /\ state.inventory[i].quantity > state.inventory[i].reorderThreshold
          /\ ~isLowStock(state.inventory[i])

\* C26: a recordOutbound called with a cart without lines enqueues no
\* updater, so it creates or updates no client, records no transaction and
\* changes no item: no updater of recordOutbound is ever pending, or was run
\* at the call, for an empty cart.
EmptyCartEnqueuesNothing ==
    \A k \in 1..Len(queue) :
        queue[k].op \in {"outbound", "eagerState"}
        => OutboundLines(queue[k]) # <<>>

\* C26 happens: an item is in stock, a second operation was called and
\* nothing is pending, no client is known and the ledger is empty; the
\* second call was a recordOutbound with an empty cart
EmptyCartWasRejected ==
    /\ calls = 2
    /\ queue = <<>>
    /\ Len(state.inventory) = 1
    /\ state.inventory[1].name = "Rice"
    /\ state.inventory[1].quantity = 2
    /\ state.clients = <<>>
    /\ state.transactions = <<>>

\* C27: when writes succeed, from some point on nothing is pending and the
\* store holds the document of the committed state.
StoreCatchesUp ==
    <>[](queue = <<>> /\ store = [text |-> "json", value |-> JSONstringify(state)])

\* C27 happens: every operation the behaviour has was called, among them a
\* receipt, nothing is pending, and the store holds the document of the
\* committed state with its ledger
StoreHoldsLastState ==
    /\ calls = MaxCalls
    /\ queue = <<>>
    /\ state.transactions # <<>>
    /\ store \notin ForeignContents
    /\ Len(store.value.transactions) = Len(state.transactions)
    /\ store.value = JSONstringify(state)

\* C28: the updater of an upsert that resolved to an existing item leaves
\* that item, in the state it is applied to, with every field the partial
\* does not have (updatedAt apart) as it was, and leaves every other item,
\* the clients and the ledger as they were.
UpdateKeepsAbsentFields ==
    LET steps == Steps IN
    \A k \in 1..Len(steps) :
        LET s == steps[k] IN
        s.upd.op = "replaceItem"
        => /\ Len(s.next.inventory) = Len(s.prev.inventory)
           /\ \A i \in 1..Len(s.prev.inventory) :
                IF s.prev.inventory[i].id = s.upd.id
                THEN \A f \in (DOMAIN s.prev.inventory[i]
                                    \ DOMAIN s.upd.partial) \ {"updatedAt"} :
                        /\ Has(s.next.inventory[i], f)
                        /\ s.next.inventory[i][f] = s.prev.inventory[i][f]
                ELSE s.next.inventory[i] = s.prev.inventory[i]
           /\ s.next.clients = s.prev.clients
           /\ s.next.transactions = s.prev.transactions

\* the barcode an item is created with: the trimmed barcode of the partial,
\* undefined when the partial has none or a blank one
TrimmedOrAbsent(partial) ==
    IF Has(partial, "barcode") /\ partial.barcode # Undef
       /\ Trim(partial.barcode) # ""
    THEN Trim(partial.barcode)
    ELSE Undef

\* C29: the updater of an upsert that matched no item appends one item to
\* the inventory of the state it is applied to and changes nothing else; the
\* item has the partial's quantity, weight, value and category, 0 and
\* "Uncategorized" for those the partial does not set, the trimmed barcode
\* or none, and a createdAt equal to its updatedAt.
CreateAppendsOneItemWithDefaults ==
    LET steps == Steps IN
    \A k \in 1..Len(steps) :
        LET s == steps[k]
            partial == s.upd.partial
            item == s.next.inventory[Len(s.next.inventory)]
        IN
        s.upd.op = "appendItem"
        => /\ Len(s.next.inventory) = Len(s.prev.inventory) + 1
           /\ SubSeq(s.next.inventory, 1, Len(s.prev.inventory))
                = s.prev.inventory
           /\ s.next = [s.prev EXCEPT !.inventory = s.next.inventory]
           /\ item.name = partial.name
           /\ item.quantity
                = (IF Has(partial, "quantity") THEN partial.quantity ELSE 0)
           /\ item.weightPerUnitLbs
                = (IF Has(partial, "weightPerUnitLbs")
                   THEN partial.weightPerUnitLbs ELSE 0)
           /\ item.valuePerUnitUsd
                = (IF Has(partial, "valuePerUnitUsd")
                   THEN partial.valuePerUnitUsd ELSE 0)
           /\ item.category
                = (IF Has(partial, "category") /\ partial.category # Undef
                   THEN partial.category ELSE "Uncategorized")
           /\ item.barcode = TrimmedOrAbsent(partial)
           /\ item.createdAt = item.updatedAt

\* C29 happens: two creates are pending on an inventory that has an item,
\* one with a barcode typed with blanks around it and one with a blank
\* barcode
CreatesWithBarcodesPending ==
    /\ state.inventory # <<>>
    /\ Len(queue) = 2
    /\ queue[1].op = "appendItem" /\ Get(queue[1].partial, "barcode") = " 123 "
    /\ queue[2].op = "appendItem" /\ Get(queue[2].partial, "barcode") = " "

\* C30: the updater of upsertBarcodeCache leaves, in the state it is
\* applied to, the barcode's entry with the fields it was given and the
\* cachedAt of the call and no other field, and changes nothing else: not
\* the entries of other barcodes, nor any other part of the state.
CacheEntryReplaced ==
    LET steps == Steps IN
    \A k \in 1..Len(steps) :
        LET s == steps[k]
            entry == s.next.barcodeCache[s.upd.barcode]
        IN
        s.upd.op = "cache"
        => /\ DOMAIN s.next.barcodeCache
                = DOMAIN s.prev.barcodeCache \cup {s.upd.barcode}
           /\ DOMAIN entry = DOMAIN s.upd.entry \cup {"cachedAt"}
           /\ \A f \in DOMAIN s.upd.entry : entry[f] = s.upd.entry[f]
           /\ entry.cachedAt = s.upd.cachedAt
           /\ \A b \in DOMAIN s.prev.barcodeCache \ {s.upd.barcode} :
                s.next.barcodeCache[b] = s.prev.barcodeCache[b]
           /\ s.next = [s.prev EXCEPT !.barcodeCache = s.next.barcodeCache]

\* C30 happens: a name-only entry is pending, at a later time, for a barcode
\* whose cached entry has a category, while another barcode is cached and an
\* item is in the inventory
NameOnlyEntryPending ==
    /\ Len(queue) = 1
    /\ queue[1].op = "cache"
    /\ queue[1].barcode = "123"
    /\ queue[1].entry = [name |-> "Beans"]
    /\ Has(state.barcodeCache, "123")
    /\ Has(state.barcodeCache["123"], "category")
    /\ state.barcodeCache["123"].cachedAt < queue[1].cachedAt
    /\ Has(state.barcodeCache, "456")
    /\ state.inventory # <<>>

\* the sum of a number field over the entries of a map
RECURSIVE SumOf(_, _)
SumOf(map, field) ==
    IF DOMAIN map = {} THEN 0
    ELSE LET k == CHOOSE x \in DOMAIN map : TRUE
         IN  map[k][field] + SumOf([x \in DOMAIN map \ {k} |-> map[x]], field)

\* the units of all the lines of a list of transactions
RECURSIVE AllUnits(_)
AllUnits(txs) ==
    IF txs = <<>> THEN 0
    ELSE AllUnits(Tail(txs)) + Units(Head(txs).items)

\* C31: for every range of dates, the report selects, in the order of the
\* ledger, exactly the OUT transactions whose day is not before `from` and
\* not after `to` (a bound that is not set does not restrict); the item
\* quantities and the client units both sum to the units of all the lines
\* of the selected transactions, and the client visits sum to their number.
ReportSelectsRangeAndAgrees ==
    \A range \in ReportRanges :
        LET txs == rangeTx(state.transactions, range)
            selected == SelectSeq(state.transactions, LAMBDA tx :
                            /\ tx.type = "OUT"
                            /\ (Has(range, "from")
                                    => range.from <= DateOnly(tx.timestamp))
                            /\ (Has(range, "to")
                                    => DateOnly(tx.timestamp) <= range.to))
        IN  /\ txs = selected
            /\ SumOf(byItem(txs), "quantity") = AllUnits(selected)
            /\ SumOf(byClient(txs), "units") = AllUnits(selected)
            /\ SumOf(byClient(txs), "visits") = Len(selected)

\* C31 happens: the ledger holds a receipt and two distributions of
\* different days, and the range that ends on the first day selects one
ReportOverTwoDays ==
    /\ \E i \in 1..Len(state.transactions) : state.transactions[i].type = "IN"
    /\ Len(rangeTx(state.transactions, NoOptions)) = 2
    /\ Len(rangeTx(state.transactions, [to |-> 0])) = 1
    /\ Len(rangeTx(state.transactions, [from |-> 1, to |-> 1])) = 1
    /\ SumOf(byItem(rangeTx(state.transactions, NoOptions)), "quantity") >= 2

\* C32: in every reachable state no two client records have the same id
\* (a recordOutbound for a new client leaves one record of that client).
UniqueClientIds ==
    \A i, j \in 1..Len(state.clients) :
        Get(state.clients[i], "id") = Get(state.clients[j], "id") => i = j

\* C33: in every reachable state the clientId of every OUT transaction is
\* the id of a client record of the client list.
OutboundsNameAClient ==
    \A t \in 1..Len(state.transactions) :
        state.transactions[t].type = "OUT"
        => \E c \in 1..Len(state.clients) :
            Get(state.clients[c], "id") = Get(state.transactions[t], "clientId")

\* C34: in every reachable state the itemId of every line of every
\* transaction of the ledger is the id of an item of the inventory.
LinesNameAnItem ==
    \A t \in 1..Len(state.transactions) :
        \A l \in 1..Len(state.transactions[t].items) :
            Exists(state.inventory, state.transactions[t].items[l].itemId)

\* the units of an item in the lines of the transactions of one type
RECURSIVE Moved(_, _, _)
Moved(transactions, type, id) ==
    IF transactions = <<>> THEN 0
    ELSE (IF Head(transactions).type = type
          THEN UnitsAsked(Head(transactions).items, id) ELSE 0)
            + Moved(Tail(transactions), type, id)

\* C35: an item created with quantity 0 and changed only by recordInbound
\* and by recordOutbound calls with positive line quantities within the
\* quantity on hand has, in every reachable state, the quantity of its IN
\* lines less that of its OUT lines in the ledger.
QuantityMatchesLedger ==
    \A i \in 1..Len(state.inventory) :
        state.inventory[i].quantity =
            Moved(state.transactions, "IN", state.inventory[i].id)
                - Moved(state.transactions, "OUT", state.inventory[i].id)

\* whether the recordOutbound call that enqueued an update returned a client
\* result: createdClient is set by the updater, so only when the updater has
\* run before the call returns
ReturnedClient(upd) == upd.op = "eagerState"

\* C36: a recordOutbound call returns a client result if and only if its
\* updater adds an OUT transaction to the ledger of the state it is
\* applied to.
ReturnsClientIffRecorded ==
    LET steps == Steps IN
    \A k \in 1..Len(steps) :
        LET s == steps[k] IN
        s.upd.op \in {"outbound", "eagerState"}
        => (ReturnedClient(s.upd)
                <=> /\ Len(s.next.transactions) = Len(s.prev.transactions) + 1
                    /\ s.next.transactions[1].type = "OUT")

\* C37: the update of a recordOutbound call, whatever quantities its cart
\* lines carry, leaves no inventory item with more units than it had in the
\* state the update is applied to, and every line of every OUT transaction
\* of the ledger has a quantity above 0.
DistributionNeverAddsStock ==
    LET steps == Steps IN
    /\ \A k \in 1..Len(steps) :
        LET s == steps[k] IN
        s.upd.op \in {"outbound", "eagerState"}
        => /\ Len(s.next.inventory) = Len(s.prev.inventory)
           /\ \A i \in 1..Len(s.prev.inventory) :
                s.next.inventory[i].quantity <= s.prev.inventory[i].quantity
    /\ \A t \in 1..Len(state.transactions) :
        state.transactions[t].type = "OUT"
        => \A l \in 1..Len(state.transactions[t].items) :
            state.transactions[t].items[l].quantity > 0

\* C38: in every reachable state every transaction of the ledger has at
\* least one line, every IN transaction has exactly one line, and no two
\* transactions have the same id.
LedgerWellFormed ==
    /\ \A t \in 1..Len(state.transactions) :
        /\ Len(state.transactions[t].items) >= 1
        /\ state.transactions[t].type = "IN"
            => Len(state.transactions[t].items) = 1
    /\ \A t, o \in 1..Len(state.transactions) :
        state.transactions[t].id = state.transactions[o].id => t = o

\* C38 happens: the ledger holds a receipt and a distribution of two lines,
\* and a distribution none of whose lines names an item is pending
LedgerOfBothKindsAndAbortPending ==
    /\ Len(state.transactions) = 2
    /\ \E t \in 1..2 : state.transactions[t].type = "IN"
    /\ \E t \in 1..2 : /\ state.transactions[t].type = "OUT"
                       /\ Len(state.transactions[t].items) = 2
    /\ \E k \in 1..Len(queue) :
        /\ queue[k].op = "outbound"
        /\ TxItems(state.inventory, queue[k].items) = <<>>

\* C39: a POST /api/transactions request answered with status 400 leaves
\* the storage as it was before the request: no transaction and no
\* transaction item created while it was handled is stored.
RejectedPostStoresNothing ==
    \A k \in 1..Len(responses) :
        responses[k].status = 400
        => /\ responses[k].created = {}
           /\ StoredIds(storage) \cap responses[k].created = {}
           /\ k = Len(responses) => storage = responses[k].before

====
